---- MODULE Spec2Model ----
(***************************************************************************)
(* A model of the hasher repository: the multi-digest streaming engine of  *)
(* src/src/lib.rs (Hasher), the file pipeline that feeds it                *)
(* (src/src/output.rs, src/src/commands/copy.rs, download.rs), the store   *)
(* (src/src/database.rs), the verify command (src/src/commands/verify.rs), *)
(* the downloader (src/src/downloader.rs), the start-up                    *)
(* (src/src/main.rs, src/src/configuration.rs), the gzip functions         *)
(* (src/src/compression.rs) and hash_file of src/src/hasher.rs.            *)
(*                                                                         *)
(* Digests are modelled as ideal (collision-free) incremental hashes: the  *)
(* state of a digest is the byte sequence it absorbed since construction   *)
(* or its last reset, and its output is an injective function of the       *)
(* algorithm and of that sequence.                                         *)
(***************************************************************************)
EXTENDS Integers, Sequences, FiniteSets, TLC

\* ------------------------------------------------------------------ bounds

\* Longest file present on disk in the initial state, in bytes.
MaxFileLen == 4
\* Longest in-memory buffer handed to hash_single_buffer.
MaxBufLen == 2
\* Number of modifications the external writer makes.
MaxWrites == 2
\* Number of hash_file / hash_single_buffer calls_left made on the one Hasher.
MaxCalls == 2
\* Longest plain content of the input file of a command run.
MaxDataLen == 1
\* Number of files a directory walk discovers.
MaxEntries == 2
\* Number of runs of the same copy command.
MaxRuns == 2
\* The largest retry_count of a Downloader.
MaxRetryCount == 2

\* --------------------------------------------------------- program constants

\* lib.rs:144 (512 MiB) and lib.rs:145 (32 MiB), scaled down to byte counts the
\* bounded files reach; the order SEQUENTIAL_SIZE < CHUNK_SIZE is kept.
CHUNK_SIZE == 3
SEQUENTIAL_SIZE == 2

\* ------------------------------------------------------------------ helpers

Min(a, b) == IF a < b THEN a ELSE b

Range(s) == {s[i] : i \in DOMAIN s}

\* The model's byte sequence of length n: byte i is i, so that no two positions
\* hold the same byte and a slice is recognised by its content.
Bytes(n) == [i \in 1..n |-> i]

\* The model's inputs of length at most n.
BytesUpTo(n) == {Bytes(k) : k \in 0..n}

\* The concatenation of a sequence of byte sequences.
RECURSIVE Flatten(_)
Flatten(ss) == IF ss = <<>> THEN <<>> ELSE Head(ss) \o Flatten(Tail(ss))


\* The first n elements of s, and s without them.
Take(s, n) == SubSeq(s, 1, Min(n, Len(s)))
Drop(s, n) == SubSeq(s, Min(n, Len(s)) + 1, Len(s))

\* ----------------------------------------------------------- digest registry

\* The variable-output digests in the order of the init_hash! invocation of
\* Hasher::new (a sub-list of its 47 entries; the order is the source's).
Registry == <<"md5", "sha1", "sha256">>

\* Every algorithm identifier of the model's HashConfig.
Algorithms == {"crc32"} \cup Range(Registry)

\* A HashConfig is the set of its fields that are true.
Configs == SUBSET Algorithms

\* The position of a variable digest in the registry.
RegistryIndex(name) == CHOOSE i \in DOMAIN Registry : Registry[i] = name

\* DynDigest::finalize_reset / crc32fast finalize().to_le_bytes(): the output of
\* an ideal digest is determined by, and determines, the algorithm and the
\* bytes absorbed.
DigestBytes(name, absorbed) == <<name, absorbed>>

\* The (name, state) pairs pushed by init_hash!, in registry order, for the
\* enabled fields only.
RECURSIVE init_hash(_, _)
init_hash(cfg, i) ==
    IF i > Len(Registry) THEN <<>>
    ELSE (IF Registry[i] \in cfg
          THEN <<[name |-> Registry[i], st |-> <<>>]>>
          ELSE <<>>) \o init_hash(cfg, i + 1)

\* Hasher::new: the hashes vector and the optional crc32 hasher.
NewHasher(cfg) ==
    [hashes |-> init_hash(cfg, 1),
     crc32_hasher |-> [some |-> "crc32" \in cfg, st |-> <<>>]]

\* Hasher::hash_buffer_sequential: every digest absorbs the buffer, the
\* variable digests in vector order, then crc32.
hash_buffer_sequential(h, buffer) ==
    [hashes |-> [i \in DOMAIN h.hashes |->
                    [h.hashes[i] EXCEPT !.st = @ \o buffer]],
     crc32_hasher |-> IF h.crc32_hasher.some
                      THEN [h.crc32_hasher EXCEPT !.st = @ \o buffer]
                      ELSE h.crc32_hasher]

\* finalize_hashes with the crc32 entry pushed after the variable digests.
FinalizeResultsCrcLast(h) ==
    [i \in DOMAIN h.hashes |->
          [name |-> h.hashes[i].name,
           bytes |-> DigestBytes(h.hashes[i].name, h.hashes[i].st)]]
    \o (IF h.crc32_hasher.some
        THEN <<[name |-> "crc32", bytes |-> DigestBytes("crc32", h.crc32_hasher.st)]>>
        ELSE <<>>)

\* The results vector built by Hasher::finalize_hashes: crc32 first (the state
\* is cloned and the clone finalized), then each variable digest.
FinalizeResults(h) ==
    (IF h.crc32_hasher.some
     THEN <<[name |-> "crc32", bytes |-> DigestBytes("crc32", h.crc32_hasher.st)]>>
     ELSE <<>>)
    \o [i \in DOMAIN h.hashes |->
          [name |-> h.hashes[i].name,
           bytes |-> DigestBytes(h.hashes[i].name, h.hashes[i].st)]]

\* The Hasher after Hasher::finalize_hashes: finalize_reset resets each variable
\* digest; the crc32 hasher itself is left as it was (only its clone is
\* consumed).
FinalizeState(h) ==
    [hashes |-> [i \in DOMAIN h.hashes |-> [h.hashes[i] EXCEPT !.st = <<>>]],
     crc32_hasher |-> h.crc32_hasher]

\* Hasher::hash_buffer as a function, for the callers that use it in one step
\* (the threaded branch leaves each digest as the sequential one does, C3).
hash_buffer(h, buffer) ==
    IF buffer = <<>> THEN h ELSE hash_buffer_sequential(h, buffer)

\* Hasher::hash_single_buffer on Hasher h: the results and the Hasher left.
hash_single_buffer(h, buffer) ==
    [results |-> FinalizeResults(hash_buffer(h, buffer)),
     hasher |-> FinalizeState(hash_buffer(h, buffer))]

\* ------------------------------------------------------------------- state

VARIABLES
    config,        \* the HashConfig the Hasher was built from
    hashes,        \* Hasher.hashes: <<[name, st]>>
    crc32_hasher,  \* Hasher.crc32_hasher: [some, st]
    is_file,       \* whether path names a regular file
    fdata,         \* the bytes of the file at path
    mtime,         \* its modification time
    pc,            \* where the running call is
    op,            \* "file" (hash_file) or "single" (hash_single_buffer)
    file_size,     \* hash_file: the length probed by validate_file
    rcap,          \* the BufReader's capacity
    rpos,          \* the offset of the open file handle
    rbuf,          \* the bytes the BufReader holds and has not handed out
    buflen,        \* buffer.len()
    start_mtime,   \* start_metadata.modified()
    bytes_read,    \* bytes_read of the current iteration
    chunk,         \* the bytes handed to hash_buffer
    workers,       \* the spawned threads that have not yet updated their digest
    ret,           \* what the last call returned
    calls_left,    \* calls_left the caller will still make on this Hasher
    h0,            \* history: the Hasher when the running call started
    hpre,          \* history: the Hasher when the current chunk was dispatched
    fed,           \* history: the chunks this call handed to hash_buffer, in order
    f0,            \* history: the file's bytes when the running call started
    written,       \* history: what the writer did during the running call, and where the call was
    clean,         \* history: every earlier call on this Hasher returned Ok
    \* the file pipeline (one command run on one input)
    command,       \* "hash", "copy" or "download"
    args,          \* the HasherOptions (and the copy flags) of the run
    fs,            \* the file system: path -> bytes, for the paths that exist
    source,        \* the input path (hash, copy), the downloaded path (download)
    dest,          \* copy: the destination path
    download,      \* download: the DownloadResult
    read_failure,  \* which reads of the input file fail
    conn_failing,  \* whether the INSERTs on the run's connection fail
    rows,          \* the rows inserted into the database, in order
    json_out,      \* the hash JSON objects printed, in order
    result_json,   \* the download result JSON objects printed, in order
    produced,      \* history: the records the hashing produced, in order
    status,        \* "ready", then how the command ended: "ok", "err", "exit"
    \* the directory batch of the hash command
    entries,       \* the files the walk discovers, in order
    cursor,        \* the index of the next entry of the walk
    handed,        \* history: the paths handed to process_single_file by the walk
    \* repeated runs of the copy command
    skip_json,     \* the "skipped" JSON objects printed, in order
    copies,        \* history: how often copy_file was executed
    runs,          \* how many runs of the command have ended
    existing,      \* history: what file_existing returned in the last run
    fs_before,     \* history: the file system the last run started from
    \* the store and the verify command
    db,            \* the database file: table name -> rows, for the tables that exist
    table_name,    \* config.database.table_name
    mismatches_only, \* verify: HasherVerifyArgs.mismatches_only
    paths,         \* verify: what get_all_paths returned
    verified,      \* history: per verify_file call, its path, Ok or Err, the objects printed
    \* one insert_single_hash call, then a lookup
    record,        \* the record being inserted
    store_pc,      \* where the call is
    retries,       \* `retries` of the loop
    executions,    \* history: how often the INSERT was executed
    errors,        \* history: the errors the executions returned, in order
    insert_ret,    \* what insert_single_hash returned
    lookup,        \* what get_file_hashes returned afterwards
    \* one download_file call
    retry_count,   \* DownloadConfig.retry_count
    no_clobber,    \* DownloadConfig.no_clobber
    dest_exists,   \* whether the destination path exists
    parent,        \* create_dir_all of the parent: "untried", "created", "failed"
    dl_pc,         \* where the call is
    attempt,       \* `attempt` of the loop
    fetches,       \* history: the outcome of each attempt_download, in order
    sleeps,        \* history: per sleep, how many attempts had been made before it
    dl_result,     \* the DownloadResult: success, error and size
    dest_size,     \* the length of the destination file (0 while it is absent)
    writes,        \* history: how often the destination was written
    ingested,      \* history: whether process_single_file was called on the result
    existed,       \* history: whether the destination was there at the call
    \* start-up: the command line and the configuration file
    passed,        \* the options as typed, each an Option
    options,       \* HasherOptions
    config_file,   \* the configuration file: missing, unreadable, invalid or present, its content
    db_path_override, \* --db-path, an Option
    loaded,        \* what get_config returned
    cfg_pc,        \* where the start-up is
    \* a compress_bytes call, then a decompress_bytes call on what it returned
    gz_bytes,      \* the bytes given to compress_bytes
    gz_level,      \* the level given to compress_bytes
    gz_compressed,   \* what compress_bytes returned
    gz_decompressed, \* what decompress_bytes returned
    gz_pc,         \* where the round trip is
    \* main
    main_args,     \* the command and the options main reads
    main_pc,       \* where main is
    journal_mode,  \* the journal mode of the database file
    should_close_wal, \* `should_close_wal` of main
    exit_code,     \* the exit status of the process, -1 while it runs
    closes,        \* history: the close_database calls
    \* hash_file of hasher.rs
    legacy_file,   \* the bytes of the file
    legacy_pos,    \* how many of them file_reader has handed out
    legacy_buffer, \* `buffer`
    legacy_read,   \* `bytes_read`
    legacy_pc,     \* where the call is
    legacy_fed,    \* history: the slices the digests were updated with
    legacy_got     \* history: the bytes each read before an update returned

hvars == <<config, hashes, crc32_hasher, is_file, fdata, mtime, pc, op, file_size, rcap,
           rpos, rbuf, buflen, start_mtime, bytes_read, chunk, workers, ret,
           calls_left, h0, hpre, fed, f0, written, clean>>

\* What a command run is given.
inputs == <<command, args, source, dest, download, read_failure, conn_failing>>

\* The sinks and the history of a command run.
sinks == <<rows, json_out, produced>>

\* The directory walk.
bvars == <<entries, cursor, handed>>

\* The repeated copy.
cvars == <<skip_json, copies, runs, existing, fs_before>>

pvars == <<inputs, fs, sinks, result_json, status, bvars, cvars>>

\* The database file and its configuration.
stvars == <<db, table_name>>

\* The verify command.
vvars == <<mismatches_only, paths, verified>>

\* An insert_single_hash call.
ivars == <<record, store_pc, retries, executions, errors, insert_ret, lookup>>

\* A download_file call.
dvars == <<retry_count, no_clobber, dest_exists, parent, dl_pc, attempt, fetches,
           sleeps, dl_result, dest_size, writes, ingested, existed>>

svars == <<stvars, vvars, ivars, dvars>>

\* The command line and the configuration.
kvars == <<passed, options, config_file, db_path_override, loaded, cfg_pc>>

\* The gzip round trip.
zvars == <<gz_bytes, gz_level, gz_compressed, gz_decompressed, gz_pc>>

\* The run of main.
mvars == <<main_args, main_pc, journal_mode, should_close_wal, exit_code, closes>>

\* hash_file of hasher.rs.
lvars == <<legacy_file, legacy_pos, legacy_buffer, legacy_read, legacy_pc, legacy_fed,
           legacy_got>>

xvars == <<kvars, zvars, mvars, lvars>>

vars == <<hvars, pvars, svars, xvars>>

\* The Hasher as one value.
Self == [hashes |-> hashes, crc32_hasher |-> crc32_hasher]

NoRet == [kind |-> "none"]

\* hash_buffer_threaded without the thread of the crc32 hasher.
WorkerIdsNoCrc32(h) == DOMAIN h.hashes

\* The threads of hash_buffer_threaded: one per entry of hashes (its index) and
\* one for crc32 (0) when enabled.
WorkerIds(h) == DOMAIN h.hashes \cup (IF h.crc32_hasher.some THEN {0} ELSE {})

HasherInit(ncalls) ==
    /\ config \in Configs
    /\ hashes = NewHasher(config).hashes
    /\ crc32_hasher = NewHasher(config).crc32_hasher
    /\ \/ is_file = TRUE /\ fdata \in BytesUpTo(MaxFileLen)
       \/ is_file = FALSE /\ fdata = <<>>
    /\ mtime = 0
    /\ pc = "idle"
    /\ op = "none"
    /\ file_size = 0
    /\ rcap = 0
    /\ rpos = 0
    /\ rbuf = <<>>
    /\ buflen = 0
    /\ start_mtime = 0
    /\ bytes_read = 0
    /\ chunk = <<>>
    /\ workers = {}
    /\ ret = NoRet
    /\ calls_left = ncalls
    /\ h0 = NewHasher(config)
    /\ hpre = NewHasher(config)
    /\ fed = <<>>
    /\ f0 = <<>>
    /\ written = {}
    /\ clean = TRUE

\* What a call leaves alone: the configuration and the file.
CallFrame == UNCHANGED <<config, fdata, mtime, is_file>>

\* The start of a call on the Hasher: the history variables are reset.
BeginCall(kind) ==
    /\ pc = "idle"
    /\ calls_left > 0
    /\ calls_left' = calls_left - 1
    /\ op' = kind
    /\ ret' = NoRet
    /\ clean' = (clean /\ ret.kind # "err")
    /\ h0' = Self
    /\ f0' = fdata
    /\ written' = {}

\* A call returns value r: its locals (the reader, the buffer, the metadata) are
\* dropped.
Return(r) ==
    /\ ret' = r
    /\ pc' = "idle"
    /\ file_size' = 0
    /\ rcap' = 0
    /\ rpos' = 0
    /\ rbuf' = <<>>
    /\ buflen' = 0
    /\ start_mtime' = 0
    /\ bytes_read' = 0
    /\ chunk' = <<>>

\* Hasher::validate_file, and the buffer hash_file allocates right after it:
\* open, probe the length, size the BufReader and the buffer to
\* CHUNK_SIZE.min(size). A path that is not a regular file is refused.
validate_file ==
    /\ BeginCall("file")
    /\ fed' = <<>>
    /\ IF ~is_file
       THEN Return([kind |-> "err", err |-> "InvalidInput"])
       ELSE /\ file_size' = Len(fdata)
            /\ rcap' = Min(CHUNK_SIZE, Len(fdata))
            /\ buflen' = Min(CHUNK_SIZE, Len(fdata))
            /\ rpos' = 0
            /\ rbuf' = <<>>
            /\ pc' = "opened"
            /\ UNCHANGED <<start_mtime, bytes_read, chunk>>
    /\ CallFrame
    /\ UNCHANGED <<hashes, crc32_hasher, workers, hpre>>

\* hash_file, `let start_metadata = path.metadata()?`: the initial mtime probe,
\* a second look at the path after validate_file's.
ProbeStart ==
    /\ pc = "opened"
    /\ start_mtime' = mtime
    /\ pc' = "read"
    /\ CallFrame
    /\ UNCHANGED <<hashes, crc32_hasher, op, file_size, rcap, rpos, rbuf, buflen,
                   bytes_read, chunk, workers, ret, calls_left, h0, hpre, fed, f0,
                   written, clean>>

\* The bytes left in the file from the handle's offset on.
Avail == IF rpos < Len(fdata) THEN Len(fdata) - rpos ELSE 0

\* The n bytes of the file at the handle's offset.
FileSlice(n) == SubSeq(fdata, rpos + 1, rpos + n)

\* BufReader::read hands the read to the file itself when it holds no bytes and
\* the caller's buffer is at least as large as its own.
Bypass == rbuf = <<>> /\ buflen >= rcap

ReadFrame ==
    /\ CallFrame
    /\ UNCHANGED <<hashes, crc32_hasher, op, file_size, rcap, buflen, start_mtime,
                   workers, ret, calls_left, h0, hpre, fed, f0, written, clean>>

\* reader.read(&mut buffer) returns Ok(n), n > 0, straight from the file: a full
\* chunk or a short read.
ReadDirect ==
    /\ pc = "read"
    /\ Bypass
    /\ \E n \in 1..Min(buflen, Avail) :
        /\ chunk' = FileSlice(n)
        /\ bytes_read' = n
        /\ rpos' = rpos + n
    /\ rbuf' = rbuf
    /\ pc' = "probe"
    /\ ReadFrame

\* reader.read(&mut buffer) with the buffer shorter than the BufReader's (it was
\* truncated): the BufReader fills itself from the file (m bytes, possibly a
\* short read) and hands out what fits.
ReadFill ==
    /\ pc = "read"
    /\ ~Bypass
    /\ rbuf = <<>>
    /\ \E m \in 1..Min(rcap, Avail) :
        /\ chunk' = Take(FileSlice(m), buflen)
        /\ rbuf' = Drop(FileSlice(m), buflen)
        /\ bytes_read' = Min(buflen, m)
        /\ rpos' = rpos + m
    /\ pc' = "probe"
    /\ ReadFrame

\* reader.read(&mut buffer) served from the bytes the BufReader still holds.
ReadBuffered ==
    /\ pc = "read"
    /\ rbuf # <<>>
    /\ chunk' = Take(rbuf, buflen)
    /\ rbuf' = Drop(rbuf, buflen)
    /\ bytes_read' = Min(buflen, Len(rbuf))
    /\ rpos' = rpos
    /\ pc' = "probe"
    /\ ReadFrame

\* reader.read(&mut buffer) returns Ok(0): the handle is at or past the end of
\* the file, or the buffer is empty. `Ok(0) => break`.
ReadEof ==
    /\ pc = "read"
    /\ rbuf = <<>>
    /\ Min(IF Bypass THEN buflen ELSE rcap, Avail) = 0
    /\ pc' = "finalize"
    /\ UNCHANGED <<chunk, bytes_read, rpos, rbuf>>
    /\ ReadFrame

\* An Interrupted read that leaves the loop as Ok(0) does.
ReadInterruptedBreaks ==
    /\ pc = "read"
    /\ pc' = "finalize"
    /\ UNCHANGED <<chunk, bytes_read, rpos, rbuf>>
    /\ ReadFrame

\* reader.read fails with ErrorKind::Interrupted: `continue`.
ReadInterrupted ==
    /\ pc = "read"
    /\ pc' = "read"
    /\ UNCHANGED <<chunk, bytes_read, rpos, rbuf>>
    /\ ReadFrame

\* reader.read fails with any other error: `return Err(Error::Io(e))`.
ReadError ==
    /\ pc = "read"
    /\ Return([kind |-> "err", err |-> "Io"])
    /\ CallFrame
    /\ UNCHANGED <<hashes, crc32_hasher, op, workers, calls_left, h0, hpre, fed,
                   f0, written, clean>>

\* Hasher::hash_buffer on a non-empty buffer: below SEQUENTIAL_SIZE the digests
\* are updated in the caller's context, otherwise one thread per digest is
\* spawned. `after` is where the caller continues.
Dispatch(buffer, after) ==
    /\ hpre' = Self
    /\ IF Len(buffer) < SEQUENTIAL_SIZE
       THEN /\ hashes' = hash_buffer_sequential(Self, buffer).hashes
            /\ crc32_hasher' = hash_buffer_sequential(Self, buffer).crc32_hasher
            /\ workers' = {}
            /\ pc' = after
       ELSE /\ workers' = WorkerIds(Self)
            /\ pc' = "threads"
            /\ UNCHANGED <<hashes, crc32_hasher>>

\* hash_file after a read of n > 0 bytes: re-probe the mtime through the path;
\* on a mismatch return FileChanged, otherwise buffer.truncate(bytes_read) and
\* self.hash_buffer(&buffer).
Probe ==
    /\ pc = "probe"
    /\ IF mtime # start_mtime
       THEN /\ Return([kind |-> "err", err |-> "FileChanged"])
            /\ UNCHANGED <<hashes, crc32_hasher, workers, hpre, fed>>
       ELSE /\ buflen' = bytes_read
            /\ fed' = Append(fed, chunk)
            /\ Dispatch(chunk, "read")
            /\ UNCHANGED <<ret, file_size, rcap, rpos, rbuf, start_mtime,
                           bytes_read, chunk>>
    /\ CallFrame
    /\ UNCHANGED <<op, calls_left, h0, f0, written, clean>>

\* One thread of hash_buffer_threaded: lock its own digest, update it with the
\* shared buffer.
WorkerUpdate(w) ==
    /\ pc = "threads"
    /\ w \in workers
    /\ workers' = workers \ {w}
    /\ IF w = 0
       THEN /\ crc32_hasher' = [crc32_hasher EXCEPT !.st = @ \o chunk]
            /\ hashes' = hashes
       ELSE /\ hashes' = [hashes EXCEPT ![w].st = @ \o chunk]
            /\ crc32_hasher' = crc32_hasher
    /\ CallFrame
    /\ UNCHANGED <<pc, op, file_size, rcap, rpos, rbuf, buflen, start_mtime,
                   bytes_read, chunk, ret, calls_left, h0, hpre, fed, f0, written, clean>>

\* hash_buffer_threaded returning without `handle.join()`.
JoinNothing ==
    /\ pc = "threads"
    /\ pc' = IF op = "file" THEN "read" ELSE "finalize"
    /\ CallFrame
    /\ UNCHANGED <<hashes, crc32_hasher, op, file_size, rcap, rpos, rbuf, buflen,
                   start_mtime, bytes_read, chunk, workers, ret, calls_left, h0, hpre,
                   fed, f0, written, clean>>

\* hash_buffer_threaded joins every handle; hash_buffer returns to its caller.
Join ==
    /\ pc = "threads"
    /\ workers = {}
    /\ pc' = IF op = "file" THEN "read" ELSE "finalize"
    /\ CallFrame
    /\ UNCHANGED <<hashes, crc32_hasher, op, file_size, rcap, rpos, rbuf, buflen,
                   start_mtime, bytes_read, chunk, workers, ret, calls_left, h0, hpre,
                   fed, f0, written, clean>>

\* Hasher::finalize_hashes and the return of hash_file (Ok((file_size, results)))
\* or of hash_single_buffer (Ok(results)).
Finalize ==
    /\ pc = "finalize"
    /\ Return(IF op = "file"
              THEN [kind |-> "ok", size |-> file_size, results |-> FinalizeResults(Self)]
              ELSE [kind |-> "ok", results |-> FinalizeResults(Self)])
    /\ hashes' = FinalizeState(Self).hashes
    /\ crc32_hasher' = FinalizeState(Self).crc32_hasher
    /\ CallFrame
    /\ UNCHANGED <<op, workers, calls_left, h0, hpre, fed, f0, written, clean>>

\* Hasher::hash_single_buffer(b): hash_buffer(b) (a no-op on an empty buffer),
\* then finalize_hashes.
HashSingleBuffer(b) ==
    /\ BeginCall("single")
    /\ chunk' = b
    /\ fed' = <<b>>
    /\ IF b = <<>>
       THEN /\ pc' = "finalize"
            /\ UNCHANGED <<hashes, crc32_hasher, workers, hpre>>
       ELSE Dispatch(b, "finalize")
    /\ CallFrame
    /\ UNCHANGED <<file_size, rcap, rpos, rbuf, buflen, start_mtime, bytes_read>>

\* What the external writer leaves alone.
WriterFrame ==
    UNCHANGED <<config, hashes, crc32_hasher, is_file, pc, op, file_size, rcap,
                rpos, rbuf, buflen, start_mtime, bytes_read, chunk, workers, ret,
                calls_left, h0, hpre, fed, f0, clean>>

\* Another process appends a byte (0, which no initial file holds) to the file
\* and flushes: the mtime changes.
WriterAppend ==
    /\ is_file
    /\ mtime < MaxWrites
    /\ fdata' = Append(fdata, 0)
    /\ mtime' = mtime + 1
    /\ written' = IF pc = "idle" THEN written ELSE written \cup {<<"append", pc>>}
    /\ WriterFrame

\* Another process truncates the file by one byte: the mtime changes.
WriterTruncate ==
    /\ is_file
    /\ mtime < MaxWrites
    /\ fdata # <<>>
    /\ fdata' = Take(fdata, Len(fdata) - 1)
    /\ mtime' = mtime + 1
    /\ written' = IF pc = "idle" THEN written ELSE written \cup {<<"truncate", pc>>}
    /\ WriterFrame


\* ------------------------------------------------------------ the pipeline

\* A path is [dir, name]; a name is its stem followed by its extensions, so
\* <<"x", "tar", "gz">> is x.tar.gz.
Path(dir, name) == [dir |-> dir, name |-> name]

\* Path::extension is Some(e): the name has a dot after its stem.
HasExtension(p) == Len(p.name) >= 2

\* CompressionAlgorithm::is_compressed_path: the extension is "gz".
is_compressed_path(p) == HasExtension(p) /\ p.name[Len(p.name)] = "gz"

\* Path::with_extension(""): the extension, if any, is removed.
strip_extension(p) ==
    IF HasExtension(p)
    THEN [p EXCEPT !.name = SubSeq(@, 1, Len(@) - 1)]
    ELSE p

\* GzipCompression::new: level.clamp(1, 9).
ClampLevel(level) == IF level < 1 THEN 1 ELSE IF level > 9 THEN 9 ELSE level

\* compress_file without `encoder.finish()`: the member has no trailer.
compress_bytes_unfinished(bytes, level) == <<31, 139, ClampLevel(level)>> \o bytes

\* compression::compress_bytes: a gzip member, here the two magic bytes, the
\* level the stream was produced at, the payload and its length as trailer.
compress_bytes(bytes, level) ==
    <<31, 139, ClampLevel(level)>> \o bytes \o <<Len(bytes)>>

\* Whether GzDecoder accepts the bytes: header and trailer are those of a member.
IsGzip(bytes) ==
    /\ Len(bytes) >= 4
    /\ bytes[1] = 31
    /\ bytes[2] = 139
    /\ bytes[Len(bytes)] = Len(bytes) - 4

\* compression::decompress_bytes: the payload, or an io::Error.
decompress_bytes(bytes) ==
    IF IsGzip(bytes)
    THEN [ok |-> TRUE, bytes |-> SubSeq(bytes, 4, Len(bytes) - 1)]
    ELSE [ok |-> FALSE, bytes |-> <<>>]

\* The HashConfig of the runs: the built-in default of get_config (crc32, md5,
\* sha1, sha256).
DefaultHashes == {"crc32", "md5", "sha1", "sha256"}

\* Which reads of the run fail: none; only Hasher::hash_file (the file changed
\* under it, or a read error); every read of the input.
ReadFailures == {"none", "hash_file", "all"}

HashFileFails(rf) == rf \in {"hash_file", "all"}

ReadFails(rf) == rf = "all"

\* A record as it is handed to the sinks.
Record(path, size, results) == [path |-> path, size |-> size, hashes |-> results]

\* The process_file closure of process_single_file: a fresh Hasher, then
\* hash_single_buffer; the size is data.len().
process_file(data) ==
    [size |-> Len(data),
     hashes |-> hash_single_buffer(NewHasher(DefaultHashes), data).results]

\* Hasher::hash_file on Hasher h over a file nobody writes to: the size probed,
\* the digests of its bytes (C2) and the Hasher left.
hash_file(h, data) ==
    [size |-> Len(data),
     hashes |-> hash_single_buffer(h, data).results,
     hasher |-> hash_single_buffer(h, data).hasher]

\* What a step of the pipeline yields: the records it produced, the rows and
\* hash JSON objects it wrote, and whether it ended in an error.
Outcome(recs, rws, js, err) == [recs |-> recs, rows |-> rws, json |-> js, err |-> err]

\* Outcomes in sequence: the second is not run after an error of the first.
Then(o1, o2) ==
    IF o1.err THEN o1
    ELSE Outcome(o1.recs \o o2.recs, o1.rows \o o2.rows, o1.json \o o2.json, o2.err)

\* The connection a handler is given: None, one whose INSERTs succeed, one
\* whose INSERTs fail.
Connections == {"none", "ok", "failing"}

\* SqliteConnection::connect unless json_only, as process_directory,
\* hash::execute and copy::execute open it.
Connect(a, failing) ==
    IF a.json_only THEN "none" ELSE IF failing THEN "failing" ELSE "ok"

\* The sink block repeated in every branch of process_single_file: nothing on
\* dry_run; a row per record unless json_only and when a connection is there; a
\* JSON object per record unless sql_only. A failed INSERT leaves the function
\* through `?` before anything is written.
SingleFileSinks(recs, a, conn) ==
    IF ~a.dry_run /\ ~a.json_only /\ conn = "failing"
    THEN Outcome(recs, <<>>, <<>>, TRUE)
    ELSE Outcome(recs,
                 IF ~a.dry_run /\ ~a.json_only /\ conn = "ok" THEN recs ELSE <<>>,
                 IF ~a.dry_run /\ ~a.sql_only THEN recs ELSE <<>>,
                 FALSE)

\* An error that leaves the function through `?`.
Failed == Outcome(<<>>, <<>>, <<>>, TRUE)

\* An error that reaches `result` in process_single_file: returned when
\* fail_fast is set, logged and turned into Ok(None) otherwise.
Caught(a) == Outcome(<<>>, <<>>, <<>>, a.fail_fast)

\* output::process_single_file: which bytes are hashed, under which paths the
\* records go to the sinks, and whether it returns Err. Only the error of
\* hasher.hash_file reaches `result`; the reads, decompress_bytes and the
\* INSERTs return through `?`.
process_single_file(file_path, data, rf, a, conn) ==
    IF is_compressed_path(file_path) \/ a.hash_compressed
    THEN LET compressed_data ==
                 IF is_compressed_path(file_path) THEN data
                 ELSE compress_bytes(data, a.compression_level)
             decompressed == decompress_bytes(compressed_data)
             comp == process_file(compressed_data)
             decomp == process_file(decompressed.bytes)
         IN  IF ReadFails(rf) THEN Failed
             ELSE IF a.hash_both
             THEN IF ~decompressed.ok THEN Failed
                  ELSE SingleFileSinks(
                         <<Record(file_path, comp.size, comp.hashes),
                           Record(strip_extension(file_path), decomp.size, decomp.hashes)>>,
                         a, conn)
             ELSE IF a.decompress \/ a.hash_uncompressed
             THEN IF ~decompressed.ok THEN Failed
                  ELSE SingleFileSinks(
                         <<Record(file_path, decomp.size, decomp.hashes)>>, a, conn)
             ELSE SingleFileSinks(
                         <<Record(file_path, comp.size, comp.hashes)>>, a, conn)
    ELSE LET r == hash_file(NewHasher(DefaultHashes), data)
         IN  IF HashFileFails(rf) THEN Caught(a)
             ELSE SingleFileSinks(<<Record(file_path, r.size, r.hashes)>>, a, conn)

\* output::process_stdin: the whole of stdin through a fresh Hasher, under the
\* path given on the command line; dry_run is not read.
process_stdin(file_path, buffer, rf, a, conn) ==
    LET recs == <<Record(file_path, Len(buffer),
                         hash_single_buffer(NewHasher(DefaultHashes), buffer).results)>>
    IN  IF ReadFails(rf) THEN Failed
        ELSE IF ~a.json_only /\ conn = "failing"
        THEN Outcome(recs, <<>>, <<>>, TRUE)
        ELSE Outcome(recs,
                     IF ~a.json_only /\ conn = "ok" THEN recs ELSE <<>>,
                     IF ~a.sql_only THEN recs ELSE <<>>,
                     FALSE)

\* std::fs::write, File::create: the path exists afterwards with these bytes.
WriteFile(files, p, bytes) ==
    [q \in (DOMAIN files) \cup {p} |-> IF q = p THEN bytes ELSE files[q]]

\* copy::process_hash_results: no dry_run test here.
process_hash_results(recs, a, conn) ==
    IF ~a.json_only /\ conn = "failing"
    THEN Outcome(recs, <<>>, <<>>, TRUE)
    ELSE Outcome(recs,
                 IF ~a.json_only /\ conn = "ok" THEN recs ELSE <<>>,
                 IF ~a.sql_only THEN recs ELSE <<>>,
                 FALSE)

\* copy::get_file_data: the bytes of the file, decompressed when the path says
\* gzip; an error when the read fails or the bytes are not gzip.
get_file_data(p, data, rf) ==
    IF ReadFails(rf) THEN [ok |-> FALSE, bytes |-> <<>>]
    ELSE IF is_compressed_path(p) THEN decompress_bytes(data)
    ELSE [ok |-> TRUE, bytes |-> data]

\* copy::_hash_file on Hasher h; a failing hash_file has absorbed the first k
\* bytes and finalized nothing.
_hash_file(p, data, rf, k, h, a, conn) ==
    IF HashFileFails(rf)
    THEN [out |-> Outcome(<<>>, <<>>, <<>>, a.fail_fast),
          hasher |-> hash_buffer(h, Take(data, k))]
    ELSE LET r == hash_file(h, data)
         IN  [out |-> process_hash_results(<<Record(p, r.size, r.hashes)>>, a, conn),
              hasher |-> r.hasher]

\* copy::_hash_compressed_file: the file as stored, then its decompressed bytes,
\* on the same Hasher and under the same path.
_hash_compressed_file(src, data, rf, k, h, a, conn) ==
    LET first == _hash_file(src, data, rf, k, h, a, conn)
        got == get_file_data(src, data, rf)
        second == hash_single_buffer(first.hasher, got.bytes)
    IN  Then(first.out,
             IF got.ok
             THEN process_hash_results(
                      <<Record(src, Len(got.bytes), second.results)>>, a, conn)
             ELSE Outcome(<<>>, <<>>, <<>>, FALSE))

\* copy::get_final_dest.
get_final_dest(d, a) ==
    IF a.compress
    THEN IF ~is_compressed_path(d)
         THEN IF HasExtension(d)
              THEN [d EXCEPT !.name = Append(@, "gz")]
              ELSE [d EXCEPT !.name = @ \o <<"", "gz">>]
         ELSE d
    ELSE IF a.decompress /\ is_compressed_path(d)
    THEN strip_extension(d)
    ELSE d

\* copy::copy_file: the file system afterwards, or an error.
copy_file(files, src, final, a, rf) ==
    IF ReadFails(rf) THEN [ok |-> FALSE, fs |-> files]
    ELSE IF a.compress /\ ~is_compressed_path(src)
    THEN [ok |-> TRUE,
          fs |-> WriteFile(files, final, compress_bytes(files[src], a.compression_level))]
    ELSE IF a.decompress /\ is_compressed_path(src)
    THEN IF decompress_bytes(files[src]).ok
         THEN [ok |-> TRUE, fs |-> WriteFile(files, final, decompress_bytes(files[src]).bytes)]
         ELSE [ok |-> FALSE, fs |-> files]
    ELSE [ok |-> TRUE, fs |-> WriteFile(files, final, files[src])]

\* copy::hash_file_based_on_options, on the file system copy_file left.
hash_file_based_on_options(files, src, final, a, rf, k, conn) ==
    LET h == NewHasher(DefaultHashes)
        stored == IF a.store_source_path THEN src ELSE final
        plain == IF a.store_source_path THEN src
                 ELSE IF a.hash_compressed THEN final ELSE src
        got == get_file_data(src, files[src], rf)
    IN  IF a.hash_both
        THEN IF is_compressed_path(src)
             THEN _hash_compressed_file(src, files[src], rf, k, h, a, conn)
             ELSE _hash_file(stored, files[stored], rf, k, h, a, conn).out
        ELSE IF a.hash_uncompressed /\ is_compressed_path(src)
        THEN IF got.ok
             THEN process_hash_results(
                      <<Record(stored, Len(got.bytes),
                               hash_single_buffer(h, got.bytes).results)>>, a, conn)
             ELSE Outcome(<<>>, <<>>, <<>>, FALSE)
        ELSE _hash_file(plain, files[plain], rf, k, h, a, conn).out

\* A file_existing that compares the files as stored, whatever the flags.
comparison_data_as_stored(p, data, a, rf) ==
    IF ReadFails(rf) THEN [ok |-> FALSE, bytes |-> <<>>]
    ELSE [ok |-> TRUE, bytes |-> data]

\* The bytes file_existing compares for one side: decompressed for a .gz path
\* under decompress or hash_uncompressed, compressed for a raw path under
\* hash_compressed, as stored otherwise; an error when the read or the
\* decompression fails.
comparison_data(p, data, a, rf) ==
    IF ReadFails(rf) THEN [ok |-> FALSE, bytes |-> <<>>]
    ELSE IF is_compressed_path(p) /\ (a.decompress \/ a.hash_uncompressed)
    THEN decompress_bytes(data)
    ELSE IF ~is_compressed_path(p) /\ a.hash_compressed
    THEN [ok |-> TRUE, bytes |-> compress_bytes(data, a.compression_level)]
    ELSE [ok |-> TRUE, bytes |-> data]

\* The "skipped" JSON object of output_skip_json.
SkipJson(p, reason) == [status |-> "skipped", file_path |-> p, reason |-> reason]

\* The SHA-256 file_existing computes with a Hasher of its own.
Sha256Of(bytes) == hash_single_buffer(NewHasher({"sha256"}), bytes).results

\* copy::file_existing while neither file changes: "true", "false" or "err",
\* and the skip JSON printed.
file_existing(files, src, final, a, rf) ==
    LET source_data == comparison_data(src, files[src], a, rf)
        dest_data == comparison_data(final, files[final], a, rf)
        shown(reason) == IF a.silent_failures THEN <<>> ELSE <<SkipJson(final, reason)>>
    IN  IF ~a.skip_existing THEN [res |-> "false", skip |-> <<>>]
        ELSE IF final \notin DOMAIN files THEN [res |-> "false", skip |-> <<>>]
        ELSE IF ~source_data.ok \/ ~dest_data.ok THEN [res |-> "err", skip |-> <<>>]
        ELSE IF Len(source_data.bytes) # Len(dest_data.bytes)
        THEN [res |-> "false", skip |-> <<>>]
        ELSE IF a.no_hash_existing THEN [res |-> "true", skip |-> shown("size match")]
        ELSE IF Sha256Of(source_data.bytes) = Sha256Of(dest_data.bytes)
        THEN [res |-> "true", skip |-> shown("hash match")]
        ELSE [res |-> "false", skip |-> <<>>]

\* What copy_and_hash_file leaves: the Outcome of the hashing, the file system,
\* the skip JSON printed and whether copy_file was executed.
CopyResult(out, files, skip, copied) ==
    [out |-> out, fs |-> files, skip |-> skip, copied |-> copied]

\* copy::copy_and_hash_file.
copy_and_hash_file(files, src, d, a, rf, k, conn) ==
    LET final == get_final_dest(d, a)
        found == file_existing(files, src, final, a, rf)
        copied == copy_file(files, src, final, a, rf)
    IN  IF a.dry_run
        THEN CopyResult(Outcome(<<>>, <<>>, <<>>, FALSE), files, <<>>, FALSE)
        ELSE IF found.res = "err" THEN CopyResult(Failed, files, <<>>, FALSE)
        ELSE IF found.res = "true"
        THEN CopyResult(Outcome(<<>>, <<>>, <<>>, FALSE), files, found.skip, FALSE)
        ELSE IF ~copied.ok THEN CopyResult(Failed, files, <<>>, TRUE)
        ELSE CopyResult(hash_file_based_on_options(copied.fs, src, final, a, rf, k,
                                                   conn),
                        copied.fs, <<>>, TRUE)

\* The contents a file may have: plain bytes, or a gzip member (written at the
\* default level) of plain bytes.
FileContents ==
    BytesUpTo(MaxDataLen) \cup {compress_bytes(b, 6) : b \in BytesUpTo(MaxDataLen)}

\* The names the input file may have.
FileNames == {<<"x", "txt">>, <<"x", "gz">>}

\* The compression levels of a run.
Levels == {1, 6}

\* HasherOptions (with store_source_path of HasherCopyArgs), as far as the
\* pipeline reads them.
Flags ==
    [compress : BOOLEAN, decompress : BOOLEAN, hash_both : BOOLEAN,
     hash_compressed : BOOLEAN, hash_uncompressed : BOOLEAN, dry_run : BOOLEAN,
     json_only : BOOLEAN, sql_only : BOOLEAN, fail_fast : BOOLEAN,
     silent_failures : BOOLEAN, store_source_path : BOOLEAN, stdin : BOOLEAN,
     skip_existing : BOOLEAN, no_hash_existing : BOOLEAN,
     compression_level : Levels]

\* The DownloadResults download_file returns: a download, a no_clobber skip, a
\* download that succeeded after a failed attempt, a failure.
DownloadResults ==
    {[success |-> TRUE, error |-> "none"],
     [success |-> TRUE, error |-> "File exists, skipping download"],
     [success |-> TRUE, error |-> "attempt failed"],
     [success |-> FALSE, error |-> "attempt failed"]}

NoDownload == [success |-> FALSE, error |-> "none"]

NoFlags ==
    [compress |-> FALSE, decompress |-> FALSE, hash_both |-> FALSE,
     hash_compressed |-> FALSE, hash_uncompressed |-> FALSE, dry_run |-> FALSE,
     json_only |-> FALSE, sql_only |-> FALSE, fail_fast |-> FALSE,
     silent_failures |-> FALSE, store_source_path |-> FALSE, stdin |-> FALSE,
     skip_existing |-> FALSE, no_hash_existing |-> FALSE,
     compression_level |-> 6]

\* No command is run: the pipeline variables of the specifications of the Hasher.
PipelineIdle ==
    /\ command = "none"
    /\ args = NoFlags
    /\ fs = <<>>
    /\ source = Path("in", <<"x">>)
    /\ dest = Path("out", <<"x">>)
    /\ download = NoDownload
    /\ read_failure = "none"
    /\ conn_failing = FALSE
    /\ rows = <<>>
    /\ json_out = <<>>
    /\ result_json = <<>>
    /\ produced = <<>>
    /\ status = "ready"
    /\ entries = <<>>
    /\ cursor = 0
    /\ handed = <<>>
    /\ skip_json = <<>>
    /\ copies = 0
    /\ runs = 0
    /\ existing = "none"
    /\ fs_before = <<>>

\* One command on one input file; a flag no handler of the command reads stays
\* unset.
PipelineInit ==
    /\ command \in {"hash", "copy", "download"}
    /\ args \in Flags
    /\ command # "copy" => ~args.store_source_path
    /\ command # "download" => ~args.silent_failures
    /\ command # "hash" => ~args.stdin
    /\ ~args.skip_existing /\ ~args.no_hash_existing
    /\ \E name \in FileNames :
          /\ source = Path("in", name)
          /\ dest = Path("out", name)
    /\ \E bytes \in FileContents : fs = (source :> bytes)
    /\ download \in IF command = "download" THEN DownloadResults ELSE {NoDownload}
    /\ read_failure \in ReadFailures
    /\ conn_failing = FALSE
    /\ rows = <<>>
    /\ json_out = <<>>
    /\ result_json = <<>>
    /\ produced = <<>>
    /\ status = "ready"
    /\ entries = <<>>
    /\ cursor = 0
    /\ handed = <<>>
    /\ skip_json = <<>>
    /\ copies = 0
    /\ runs = 0
    /\ existing = "none"
    /\ fs_before = <<>>

\* The effect of an Outcome on the sinks.
Deliver(o) ==
    /\ produced' = produced \o o.recs
    /\ rows' = rows \o o.rows
    /\ json_out' = json_out \o o.json

\* main and hash::execute for one input: the run exits when both sinks are
\* switched off and dry_run is unset; stdin goes through process_stdin, a file
\* found by process_directory through process_single_file; the connection is
\* there unless json_only.
HashCommand ==
    /\ command = "hash"
    /\ status = "ready"
    /\ IF ~args.dry_run /\ args.sql_only /\ args.json_only
       THEN /\ status' = "exit"
            /\ UNCHANGED sinks
       ELSE LET conn == Connect(args, conn_failing)
                o == IF args.stdin
                     THEN process_stdin(source, fs[source], read_failure, args, conn)
                     ELSE process_single_file(source, fs[source], read_failure,
                                              args, conn)
            IN  /\ Deliver(o)
                /\ status' = IF o.err THEN "err" ELSE "ok"
    /\ UNCHANGED <<inputs, fs, result_json, bvars, cvars>>

\* copy::execute for one file: copy_and_hash_file with the connection opened
\* unless json_only.
CopyCommand ==
    /\ command = "copy"
    /\ status = "ready"
    /\ \E k \in IF HashFileFails(read_failure) THEN 0..MaxDataLen ELSE {0} :
          LET c == copy_and_hash_file(fs, source, dest, args, read_failure, k,
                                      Connect(args, conn_failing))
          IN  /\ Deliver(c.out)
              /\ fs' = c.fs
              /\ skip_json' = skip_json \o c.skip
              /\ copies' = IF c.copied THEN copies + 1 ELSE copies
              /\ status' = IF c.out.err THEN "err" ELSE "ok"
    /\ runs' = runs + 1
    /\ existing' = IF args.dry_run THEN "none"
                   ELSE file_existing(fs, source, get_final_dest(dest, args), args,
                                      read_failure).res
    /\ fs_before' = fs
    /\ UNCHANGED <<inputs, result_json, bvars>>

\* The same copy command is run once more on the files the last run left.
CopyAgain ==
    /\ command = "copy"
    /\ status = "ok"
    /\ runs < MaxRuns
    /\ status' = "ready"
    /\ UNCHANGED <<inputs, fs, sinks, result_json, bvars, cvars>>

\* The hash_failure object process_download_result prints.
HashFailure == [type |-> "hash_failure", error |-> "process_single_file"]

\* The sentinel of a no_clobber skip.
FileExists == "File exists, skipping download"

\* download::build_result_json: the type of the object and its error (null is
\* "none").
build_result_json(result) ==
    [type |-> IF result.success /\ result.error = FileExists THEN "download_skipped"
              ELSE IF result.success THEN "download_success"
              ELSE "download_failure",
     error |-> result.error]

\* download::process_download_result: the result JSON, then the hashing of a
\* downloaded file through process_single_file without a connection.
DownloadCommand ==
    /\ command = "download"
    /\ status = "ready"
    /\ LET shown == IF ~args.sql_only \/ args.json_only
                    THEN Append(result_json, build_result_json(download))
                    ELSE result_json
           o == process_single_file(source, fs[source], read_failure, args, "none")
       IN  IF download.success /\ download.error = "File exists, skipping download"
           THEN /\ status' = "ok"
                /\ result_json' = shown
                /\ UNCHANGED sinks
           ELSE IF download.success
           THEN /\ Deliver(o)
                /\ status' = IF ~o.err THEN "ok"
                             ELSE IF ~args.fail_fast THEN "failed" ELSE "err"
                /\ result_json' = IF o.err /\ ~args.fail_fast
                                  THEN Append(shown, HashFailure) ELSE shown
           ELSE /\ status' = IF ~args.fail_fast /\ args.silent_failures
                             THEN "failed" ELSE "err"
                /\ result_json' = shown
                /\ UNCHANGED sinks
    /\ UNCHANGED <<inputs, fs, bvars, cvars>>

\* What a walk may discover: the i-th entry has the stem i; a regular file is
\* raw or .gz by name, holds plain bytes or a gzip member, is readable or not,
\* and the INSERT of its record succeeds or fails; or the entry is a
\* directory, a FIFO (read like a file) or a symlink whose target is gone (no
\* read succeeds).
Entries(i) ==
    [path : {Path("in", <<i, ext>>) : ext \in {"txt", "gz"}},
     bytes : {Bytes(1), compress_bytes(Bytes(1), 6)},
     read_failure : ReadFailures,
     insert_fails : BOOLEAN,
     kind : {"file"}] \cup
    {[path |-> Path("in", <<i, "txt">>), bytes |-> Bytes(1),
      read_failure |-> IF k = "symlink" THEN "all" ELSE "none",
      insert_fails |-> FALSE, kind |-> k] : k \in {"dir", "fifo", "symlink"}}

\* The walks of n files.
Walks(n) == [1..n -> UNION {Entries(i) : i \in 1..n}]

\* The hash command on a directory: the flags the handling of an entry reads;
\* at least one sink is on (main exits otherwise).
BatchInit ==
    /\ command = "batch"
    /\ args \in {f \in Flags :
                   /\ ~f.compress /\ ~f.hash_uncompressed /\ ~f.dry_run
                   /\ ~f.sql_only /\ ~f.silent_failures /\ ~f.store_source_path
                   /\ ~f.stdin /\ f.compression_level = 6
                   /\ ~f.skip_existing /\ ~f.no_hash_existing}
    /\ \E n \in 1..MaxEntries :
          entries \in {w \in Walks(n) : \A i \in DOMAIN w : w[i].path.name[1] = i}
    /\ cursor = 1
    /\ handed = <<>>
    /\ fs = <<>>
    /\ source = Path("in", <<"x">>)
    /\ dest = Path("out", <<"x">>)
    /\ download = NoDownload
    /\ read_failure = "none"
    /\ conn_failing = FALSE
    /\ rows = <<>>
    /\ json_out = <<>>
    /\ result_json = <<>>
    /\ produced = <<>>
    /\ status = "ready"
    /\ skip_json = <<>>
    /\ copies = 0
    /\ runs = 0
    /\ existing = "none"
    /\ fs_before = <<>>

\* output::process_directory: `!entry.path().is_dir()`.
IsHanded(e) == e.kind # "dir"

\* output::process_directory, one turn of the loop: a directory is passed
\* over; process_single_file on any other entry, its Err leaves the loop and
\* the function through `?`.
ProcessEntry ==
    /\ command = "batch"
    /\ status = "ready"
    /\ cursor <= Len(entries)
    /\ LET e == entries[cursor]
           o == process_single_file(e.path, e.bytes, e.read_failure, args,
                                    Connect(args, e.insert_fails))
       IN  IF IsHanded(e)
           THEN /\ Deliver(o)
                /\ handed' = Append(handed, e.path)
                /\ status' = IF o.err THEN "err" ELSE "ready"
                /\ cursor' = IF o.err THEN cursor ELSE cursor + 1
           ELSE /\ cursor' = cursor + 1
                /\ UNCHANGED <<sinks, handed, status>>
    /\ UNCHANGED <<inputs, fs, result_json, entries, cvars>>

\* output::process_directory after the last entry: Ok.
WalkDone ==
    /\ command = "batch"
    /\ status = "ready"
    /\ cursor > Len(entries)
    /\ status' = "ok"
    /\ UNCHANGED <<inputs, fs, sinks, result_json, bvars, cvars>>

\* The contents a destination left by someone else may have: those of a
\* source, or the same with the last plain byte altered.
DestContents ==
    FileContents \cup {<<0>>, compress_bytes(<<0>>, 6), compress_bytes(<<0>>, 1)}

\* The copy command on one file, run MaxRuns times: every flag copy reads
\* except the sink flags, dry_run and fail_fast, at the default compression
\* level; the destination is absent or was left by someone else.
CopyInit ==
    /\ command = "copy"
    /\ args \in {f \in Flags :
                   /\ ~f.dry_run /\ ~f.json_only /\ ~f.sql_only /\ ~f.fail_fast
                   /\ ~f.stdin /\ f.compression_level = 6}
    /\ \E name \in FileNames :
          /\ source = Path("in", name)
          /\ dest = Path("out", name)
    /\ \E bytes \in FileContents :
          \/ fs = (source :> bytes)
          \/ \E other \in DestContents :
                fs = (source :> bytes) @@ (get_final_dest(dest, args) :> other)
    /\ download = NoDownload
    /\ read_failure \in ReadFailures
    /\ conn_failing = FALSE
    /\ rows = <<>>
    /\ json_out = <<>>
    /\ result_json = <<>>
    /\ produced = <<>>
    /\ status = "ready"
    /\ entries = <<>>
    /\ cursor = 0
    /\ handed = <<>>
    /\ skip_json = <<>>
    /\ copies = 0
    /\ runs = 0
    /\ existing = "none"
    /\ fs_before = <<>>

\* ------------------------------------------------------ the store and verify

\* The blob columns of the table in the order of HASHES (those of the model's
\* registry).
Columns == <<"crc32">> \o Registry

\* The table the SELECTs of get_file_hashes and get_all_paths name.
SelectTable == "hashes"

\* The names config.database.table_name may have.
TableNames == {"hashes", "files", "main.files"}

\* The table a name pushed into the SQL text denotes to SQLite: a name
\* qualified by the schema `main` is the table of that schema.
SqlTable(name) == IF name = "main.files" THEN "files" ELSE name

\* A row: file_path, file_size and the blob columns the INSERT named (the
\* others are NULL).
Row(path, size, blobs) == [file_path |-> path, file_size |-> size, blobs |-> blobs]

\* The loop over row.columns() of get_file_hashes: a (name, (size, hash)) per
\* blob column that is neither NULL nor empty, in column order.
RECURSIVE row_results(_, _)
row_results(row, i) ==
    IF i > Len(Columns) THEN <<>>
    ELSE (IF Columns[i] \in DOMAIN row.blobs /\ row.blobs[Columns[i]] # <<>>
          THEN <<[name |-> Columns[i], size |-> row.file_size,
                  bytes |-> row.blobs[Columns[i]]]>>
          ELSE <<>>) \o row_results(row, i + 1)

\* database::get_file_hashes: the first row of table `hashes` with the path; an
\* error when the table or the row is not there.
get_file_hashes(d, path) ==
    IF SelectTable \notin DOMAIN d THEN [ok |-> FALSE, results |-> <<>>]
    ELSE LET t == d[SelectTable]
             hits == {i \in DOMAIN t : t[i].file_path = path}
         IN  IF hits = {} THEN [ok |-> FALSE, results |-> <<>>]
             ELSE [ok |-> TRUE,
                   results |-> row_results(
                       t[CHOOSE i \in hits : \A j \in hits : i <= j], 1)]

\* database::get_all_paths: the file_path of every row of table `hashes`.
get_all_paths(d) ==
    IF SelectTable \notin DOMAIN d THEN [ok |-> FALSE, paths |-> <<>>]
    ELSE [ok |-> TRUE,
          paths |-> [i \in DOMAIN d[SelectTable] |-> d[SelectTable][i].file_path]]

\* The hash of the entries called name, the last one winning; empty if none.
Named(results, name) ==
    LET hits == {i \in DOMAIN results : results[i].name = name}
    IN  IF hits = {} THEN <<>>
        ELSE results[CHOOSE i \in hits : \A j \in hits : j <= i].bytes

\* verify::extract_stored_hashes.
extract_stored_hashes(stored) ==
    [found_crc32 |-> \E i \in DOMAIN stored : stored[i].name = "crc32",
     found_sha256 |-> \E i \in DOMAIN stored : stored[i].name = "sha256",
     stored_crc32 |-> Named(stored, "crc32"),
     stored_sha256 |-> Named(stored, "sha256"),
     stored_size |-> IF stored = <<>> THEN 0 ELSE stored[1].size]

\* verify::extract_current_hashes.
extract_current_hashes(results) ==
    [crc32 |-> Named(results, "crc32"), sha256 |-> Named(results, "sha256")]

\* validate_hashes comparing sha256 before crc32.
validate_hashes_sha256_first(found_crc32, found_sha256, cur, crc32, sha256) ==
    IF ~found_crc32 \/ ~found_sha256 THEN <<>>
    ELSE IF cur.sha256 # sha256
    THEN <<[algorithm |-> "sha256", current |-> cur.sha256, stored |-> sha256]>>
    ELSE IF cur.crc32 # crc32
    THEN <<[algorithm |-> "crc32", current |-> cur.crc32, stored |-> crc32]>>
    ELSE <<>>

\* verify::validate_hashes: None, or the first of crc32, sha256 that differs.
validate_hashes(found_crc32, found_sha256, cur, stored_crc32, stored_sha256) ==
    IF ~found_crc32 \/ ~found_sha256 THEN <<>>
    ELSE IF cur.crc32 # stored_crc32
    THEN <<[algorithm |-> "crc32", current |-> cur.crc32, stored |-> stored_crc32]>>
    ELSE IF cur.sha256 # stored_sha256
    THEN <<[algorithm |-> "sha256", current |-> cur.sha256, stored |-> stored_sha256]>>
    ELSE <<>>

\* hex::encode: lowercase hex, one string per byte sequence.
Hex(bytes) == <<"hex", bytes>>

\* The sentinel of a missing current file.
FileNotFound == <<"file not found">>

\* verify::build_verification_json: the object printed; `current` and
\* `algorithm` are left out of a valid one.
build_verification_json(path, current_size, stored_size, failed_hash, is_missing) ==
    [valid |-> failed_hash = <<>> /\ ~is_missing,
     original |-> [path |-> path, size |-> stored_size,
                   hash |-> IF failed_hash # <<>> THEN Hex(failed_hash[1].stored)
                            ELSE Hex(<<>>)],
     current |-> IF is_missing
                 THEN <<[path |-> path, size |-> stored_size, hash |-> FileNotFound]>>
                 ELSE IF failed_hash # <<>>
                 THEN <<[path |-> path,
                         size |-> IF current_size = <<>> THEN 0 ELSE current_size[1],
                         hash |-> Hex(failed_hash[1].current)]>>
                 ELSE <<>>,
     algorithm |-> IF is_missing THEN FileNotFound
                   ELSE IF failed_hash # <<>> THEN <<failed_hash[1].algorithm>>
                   ELSE <<>>]

\* The HashConfig of verify: crc32 and sha256.
VerifyHashes == {"crc32", "sha256"}

\* What the hashing of verify returns: Err, or (Some(size), (crc32, sha256)).
Current(size, results) ==
    [ok |-> TRUE, size |-> <<size>>, hashes |-> extract_current_hashes(results)]

CurrentErr == [ok |-> FALSE, size |-> <<>>, hashes |-> extract_current_hashes(<<>>)]

\* verify::_hash_file.
verify_hash_file(data, rf) ==
    IF HashFileFails(rf) THEN CurrentErr
    ELSE LET r == hash_file(NewHasher(VerifyHashes), data)
         IN  Current(r.size, r.hashes)

\* verify::_hash_compressed_file: one Hasher for the compressed and the
\* decompressed bytes.
verify_hash_compressed_file(p, data, rf, a) ==
    IF ~is_compressed_path(p) /\ ~a.hash_compressed THEN verify_hash_file(data, rf)
    ELSE IF ReadFails(rf) THEN CurrentErr
    ELSE LET compressed_data ==
                 IF is_compressed_path(p) THEN data
                 ELSE compress_bytes(data, a.compression_level)
             decompressed == decompress_bytes(compressed_data)
             h == NewHasher(VerifyHashes)
             comp == hash_single_buffer(h, compressed_data)
         IN  IF a.hash_both
             THEN IF ~decompressed.ok THEN CurrentErr
                  ELSE IF a.hash_compressed
                  THEN Current(Len(compressed_data), comp.results)
                  ELSE Current(Len(decompressed.bytes),
                               hash_single_buffer(comp.hasher,
                                                  decompressed.bytes).results)
             ELSE IF a.decompress \/ a.hash_uncompressed
             THEN IF ~decompressed.ok THEN CurrentErr
                  ELSE Current(Len(decompressed.bytes),
                               hash_single_buffer(h, decompressed.bytes).results)
             ELSE Current(Len(compressed_data), comp.results)

\* path.with_extension(format!("{}.gz", extension)): ".gz" is appended to a
\* name with an extension, "..gz" to one without.
gz_path(p) ==
    [p EXCEPT !.name = IF HasExtension(p) THEN @ \o <<"gz">> ELSE @ \o <<"", "gz">>]

\* The hashing of verify_file: the sibling .gz when the path is gone, nothing
\* (None, empty hashes) when both are.
current_of(files, path, a, rf) ==
    IF path \notin DOMAIN files
    THEN IF gz_path(path) \in DOMAIN files
         THEN verify_hash_compressed_file(gz_path(path), files[gz_path(path)], rf, a)
         ELSE [ok |-> TRUE, size |-> <<>>, hashes |-> extract_current_hashes(<<>>)]
    ELSE IF is_compressed_path(path) \/ a.hash_compressed
    THEN verify_hash_compressed_file(path, files[path], rf, a)
    ELSE verify_hash_file(files[path], rf)

\* verify::verify_file: Ok or Err, and the objects printed.
verify_file(d, files, path, a, mo, rf) ==
    LET got == get_file_hashes(d, path)
        s == extract_stored_hashes(got.results)
        cur == current_of(files, path, a, rf)
        failed_hash ==
            IF cur.size = <<>>
            THEN <<[algorithm |-> "crc32", current |-> <<>>, stored |-> s.stored_crc32]>>
            ELSE validate_hashes(s.found_crc32, s.found_sha256, cur.hashes,
                                 s.stored_crc32, s.stored_sha256)
    IN  IF ~got.ok THEN [ok |-> FALSE, out |-> <<>>]
        ELSE IF ~s.found_crc32 \/ ~s.found_sha256 THEN [ok |-> TRUE, out |-> <<>>]
        ELSE IF ~cur.ok THEN [ok |-> FALSE, out |-> <<>>]
        ELSE IF failed_hash # <<>> \/ cur.size = <<>> \/ ~mo
        THEN [ok |-> TRUE,
              out |-> <<build_verification_json(path, cur.size, s.stored_size,
                                                failed_hash, cur.size = <<>>)>>]
        ELSE [ok |-> TRUE, out |-> <<>>]

\* ------------------------------------------------- insert, lookup, download

\* The retries of an INSERT that found the database busy.
MAX_DB_RETRIES == 3

\* What query.execute may fail with: a database error with its code, or an
\* error that is no database error.
ExecuteErrors ==
    {[database |-> TRUE, code |-> "SQLITE_BUSY"],
     [database |-> TRUE, code |-> "SQLITE_CONSTRAINT"],
     [database |-> FALSE, code |-> "io"]}

IsBusy(e) == e.database /\ e.code = "SQLITE_BUSY"

\* The retry test with the code left out: any error is retried.
MayRetryAnyError(e, n) == n < MAX_DB_RETRIES

\* insert_single_hash: `code == Some("SQLITE_BUSY") && retries < MAX_DB_RETRIES`
\* on a database error.
MayRetry(e, n) == e.database /\ e.code = "SQLITE_BUSY" /\ n < MAX_DB_RETRIES

\* impl From<sqlx::Error> for Error.
ErrorFrom(e) == IF e.database /\ e.code = "SQLITE_BUSY" THEN "DbLocked" ELSE "Database"

\* The row the INSERT of insert_single_hash writes: the path, the size (bound
\* as f64, which holds every size below 2^53 exactly) and one blob per entry of
\* `hashes`.
InsertedRow(r) ==
    Row(r.path, r.size,
        [n \in {r.hashes[i].name : i \in DOMAIN r.hashes} |-> Named(r.hashes, n)])

\* CREATE TABLE IF NOT EXISTS of init_database.
CreateTable(d, t) == IF t \in DOMAIN d THEN d ELSE d @@ (t :> <<>>)

\* The records handed to insert_single_hash: what a Hasher of the default, the
\* verify or a one-digest HashConfig returns for a file.
StoreRecords ==
    {Record(Path("in", name), Len(b), hash_single_buffer(NewHasher(cfg), b).results) :
        name \in FileNames, b \in BytesUpTo(MaxDataLen),
        cfg \in {DefaultHashes, VerifyHashes, {"md5"}}}

NoRecord == Record(Path("in", <<"x">>), 0, <<>>)

NoLookup == [ok |-> FALSE, results |-> <<>>]

NoResult == [success |-> FALSE, error |-> "none", size |-> 0]

\* No download is running.
DownloadIdle ==
    /\ retry_count = 0
    /\ no_clobber = FALSE
    /\ dest_exists = FALSE
    /\ parent = "untried"
    /\ dl_pc = "idle"
    /\ attempt = 0
    /\ fetches = <<>>
    /\ sleeps = <<>>
    /\ dl_result = NoResult
    /\ dest_size = 0
    /\ writes = 0
    /\ ingested = FALSE
    /\ existed = FALSE

\* No INSERT is running.
InsertIdle ==
    /\ record = NoRecord
    /\ store_pc = "idle"
    /\ retries = 0
    /\ executions = 0
    /\ errors = <<>>
    /\ insert_ret = "none"
    /\ lookup = NoLookup

\* A database file without rows (new, or initialised earlier under the default
\* table name), a configured table name and a record to insert.
StoreInit ==
    /\ db \in {<<>>, (SelectTable :> <<>>)}
    /\ table_name \in TableNames
    /\ record \in StoreRecords
    /\ store_pc = "init"
    /\ retries = 0
    /\ executions = 0
    /\ errors = <<>>
    /\ insert_ret = "none"
    /\ lookup = NoLookup
    /\ mismatches_only = FALSE
    /\ paths = <<>>
    /\ verified = <<>>
    /\ DownloadIdle

\* database::init_database, then the entry of insert_single_hash.
init_database ==
    /\ store_pc = "init"
    /\ db' = CreateTable(db, SqlTable(table_name))
    /\ retries' = 0
    /\ store_pc' = "execute"
    /\ UNCHANGED <<table_name, vvars, record, executions, errors, insert_ret,
                   lookup, dvars>>

\* insert_single_hash, query.execute returns Ok: the row is in the table named
\* by the configuration; `return Ok(())`.
InsertOk ==
    /\ store_pc = "execute"
    /\ SqlTable(table_name) \in DOMAIN db
    /\ db' = [db EXCEPT ![SqlTable(table_name)] = Append(@, InsertedRow(record))]
    /\ executions' = executions + 1
    /\ insert_ret' = "Ok"
    /\ store_pc' = "returned"
    /\ UNCHANGED <<table_name, vvars, record, retries, errors, lookup, dvars>>

\* insert_single_hash, query.execute returns Err(e): retry after the sleep, or
\* `return Err(Error::from(e))`.
InsertErr ==
    /\ store_pc = "execute"
    /\ \E e \in ExecuteErrors :
          /\ errors' = Append(errors, e)
          /\ IF MayRetry(e, retries)
             THEN /\ retries' = retries + 1
                  /\ store_pc' = "sleep"
                  /\ UNCHANGED insert_ret
             ELSE /\ insert_ret' = ErrorFrom(e)
                  /\ store_pc' = "returned"
                  /\ UNCHANGED retries
    /\ executions' = executions + 1
    /\ UNCHANGED <<stvars, vvars, record, lookup, dvars>>

\* sleep(DB_RETRY_DELAY) is over: `continue`.
InsertSleep ==
    /\ store_pc = "sleep"
    /\ store_pc' = "execute"
    /\ UNCHANGED <<stvars, vvars, record, retries, executions, errors, insert_ret,
                   lookup, dvars>>

\* get_file_hashes for the path of the record, after insert_single_hash returned.
Lookup ==
    /\ store_pc = "returned"
    /\ lookup' = get_file_hashes(db, record.path)
    /\ store_pc' = "looked"
    /\ UNCHANGED <<stvars, vvars, record, retries, executions, errors, insert_ret,
                   dvars>>

\* What attempt_download may fail with: the request, the status of the
\* response, the write of the file.
AttemptErrors == {"send", "status", "write"}

\* download_file sleeping before every attempt but the first two.
NeedsSleepAfterSecond(n) == n > 1

\* download_file: `if attempt > 0 { sleep(retry_delay) }`.
NeedsSleep(n) == n > 0

\* download_file never taking the no_clobber branch.
SkipsNever(nc, there) == FALSE

\* download_file: `self.config.no_clobber && result.path.exists()`.
Skips(nc, there) == nc /\ there

\* A Downloader, a destination that is there or not, and the flags
\* process_download_result reads.
DownloadInit ==
    /\ retry_count \in 0..MaxRetryCount
    /\ no_clobber \in BOOLEAN
    /\ dest_exists \in BOOLEAN
    /\ dest_size \in IF dest_exists THEN 0..MaxDataLen ELSE {0}
    /\ parent = "untried"
    /\ dl_pc = "start"
    /\ attempt = 0
    /\ fetches = <<>>
    /\ sleeps = <<>>
    /\ dl_result = NoResult
    /\ writes = 0
    /\ ingested = FALSE
    /\ existed = dest_exists
    /\ db = <<>>
    /\ table_name = "hashes"
    /\ mismatches_only = FALSE
    /\ paths = <<>>
    /\ verified = <<>>
    /\ InsertIdle
    /\ command = "download"
    /\ args \in {f \in Flags :
                   /\ ~f.compress /\ ~f.decompress /\ ~f.hash_both
                   /\ ~f.hash_compressed /\ ~f.hash_uncompressed /\ ~f.dry_run
                   /\ ~f.store_source_path /\ ~f.stdin /\ ~f.skip_existing
                   /\ ~f.no_hash_existing /\ f.compression_level = 6}
    /\ fs = <<>>
    /\ source = Path("in", <<"x">>)
    /\ dest = Path("out", <<"x">>)
    /\ download = NoDownload
    /\ read_failure = "none"
    /\ conn_failing = FALSE
    /\ rows = <<>>
    /\ json_out = <<>>
    /\ result_json = <<>>
    /\ produced = <<>>
    /\ status = "ready"
    /\ entries = <<>>
    /\ cursor = 0
    /\ handed = <<>>
    /\ skip_json = <<>>
    /\ copies = 0
    /\ runs = 0
    /\ existing = "none"
    /\ fs_before = <<>>

\* download_file up to the loop: the no_clobber skip (with the size
\* std::fs::metadata reports), create_dir_all.
DownloadStart ==
    /\ dl_pc = "start"
    /\ IF Skips(no_clobber, dest_exists)
       THEN /\ dl_result' = [success |-> TRUE, error |-> FileExists,
                             size |-> dest_size]
            /\ dl_pc' = "done"
            /\ UNCHANGED parent
       ELSE \E created \in BOOLEAN :
              /\ parent' = IF created THEN "created" ELSE "failed"
              /\ dl_result' = IF created THEN dl_result
                              ELSE [dl_result EXCEPT
                                      !.error = "Failed to create directories"]
              /\ dl_pc' = IF ~created THEN "done"
                          ELSE IF NeedsSleep(0) THEN "sleep" ELSE "attempt"
    /\ attempt' = 0
    /\ UNCHANGED <<pvars, stvars, vvars, ivars, retry_count, no_clobber,
                   dest_exists, fetches, sleeps, dest_size, writes, ingested, existed>>

\* tokio::time::sleep(retry_delay) before a retry.
DownloadSleep ==
    /\ dl_pc = "sleep"
    /\ sleeps' = Append(sleeps, Len(fetches))
    /\ dl_pc' = "attempt"
    /\ UNCHANGED <<pvars, stvars, vvars, ivars, retry_count, no_clobber,
                   dest_exists, parent, attempt, fetches, dl_result, dest_size,
                   writes, ingested, existed>>

\* attempt_download returns Ok((downloaded, path)): the n bytes received are
\* written to the destination, `break`.
AttemptOk ==
    /\ dl_pc = "attempt"
    /\ fetches' = Append(fetches, "ok")
    /\ dest_exists' = TRUE
    /\ \E n \in 0..MaxDataLen :
          /\ dest_size' = n
          /\ dl_result' = [dl_result EXCEPT !.success = TRUE, !.size = n]
    /\ writes' = writes + 1
    /\ dl_pc' = "done"
    /\ UNCHANGED <<pvars, stvars, vvars, ivars, retry_count, no_clobber, parent,
                   attempt, sleeps, ingested, existed>>

\* attempt_download returns Err(e): result.error is set and the loop goes on
\* to the next attempt, if there is one.
AttemptErr ==
    /\ dl_pc = "attempt"
    /\ \E e \in AttemptErrors :
          /\ fetches' = Append(fetches, e)
          /\ dl_result' = [dl_result EXCEPT !.error = e]
    /\ IF attempt = retry_count
       THEN /\ dl_pc' = "done"
            /\ UNCHANGED attempt
       ELSE /\ attempt' = attempt + 1
            /\ dl_pc' = IF NeedsSleep(attempt + 1) THEN "sleep" ELSE "attempt"
    /\ UNCHANGED <<pvars, stvars, vvars, ivars, retry_count, no_clobber,
                   dest_exists, parent, sleeps, dest_size, writes, ingested, existed>>

\* download::process_download_result on the result download_file returned: the
\* result JSON unless sql_only; nothing more for a skip; process_single_file
\* for a download (it returns Ok or Err); an error for a failure unless the
\* failures are silent.
ProcessResult ==
    /\ dl_pc = "done"
    /\ dl_pc' = "processed"
    /\ LET shown == IF ~args.sql_only \/ args.json_only
                    THEN Append(result_json, build_result_json(dl_result))
                    ELSE result_json
       IN  IF dl_result.success /\ dl_result.error = FileExists
           THEN /\ status' = "ok"
                /\ result_json' = shown
                /\ UNCHANGED ingested
           ELSE IF dl_result.success
           THEN /\ ingested' = TRUE
                /\ \E hashed \in BOOLEAN :
                      /\ status' = IF hashed THEN "ok"
                                   ELSE IF ~args.fail_fast THEN "failed" ELSE "err"
                      /\ result_json' = IF ~hashed /\ ~args.fail_fast
                                        THEN Append(shown, HashFailure) ELSE shown
           ELSE /\ status' = IF ~args.fail_fast /\ args.silent_failures
                             THEN "failed" ELSE "err"
                /\ result_json' = shown
                /\ UNCHANGED ingested
    /\ UNCHANGED <<inputs, fs, sinks, bvars, cvars, stvars, vvars, ivars,
                   retry_count, no_clobber, dest_exists, parent, attempt, fetches,
                   sleeps, dl_result, dest_size, writes, existed>>

\* No store is open, nothing is verified, inserted or downloaded: the variables
\* of the store in the specifications of the Hasher and of the pipeline.
StoreIdle ==
    /\ db = <<>>
    /\ table_name = "hashes"
    /\ mismatches_only = FALSE
    /\ paths = <<>>
    /\ verified = <<>>
    /\ InsertIdle
    /\ DownloadIdle

\* The bytes a stored row was computed from: crc32 from c, the other digests
\* from s (c differs from s in a row written from a Hasher used twice).
StoredFrom ==
    {[c |-> Bytes(1), s |-> Bytes(1)],
     [c |-> compress_bytes(Bytes(1), 6), s |-> compress_bytes(Bytes(1), 6)],
     [c |-> compress_bytes(Bytes(1), 6) \o Bytes(1), s |-> Bytes(1)]}

\* The columns an INSERT may have named: those of the default HashConfig, or
\* of one without crc32, or of one without sha256.
StoredColumns == {DefaultHashes, DefaultHashes \ {"crc32"}, DefaultHashes \ {"sha256"}}

\* The row of digests of the bytes `from`, in the columns cols.
StoredRow(path, from, cols) ==
    Row(path, Len(from.s),
        [n \in cols |-> DigestBytes(n, IF n = "crc32" THEN from.c ELSE from.s)])

\* The rows path A may have in the store.
StoredRows(A) == {StoredRow(A, from, cols) : from \in StoredFrom, cols \in StoredColumns}

\* Another row of A, inserted earlier or later, of other bytes.
OtherRow(A) == StoredRow(A, [c |-> <<0>>, s |-> <<0>>], DefaultHashes)

\* What the file of the path may hold: the bytes a row was computed from, or
\* other plain bytes.
VerifiedContents ==
    {Bytes(1), <<0>>, compress_bytes(Bytes(1), 6), compress_bytes(Bytes(1), 6) \o Bytes(1)}

\* The verify command on a store holding one path, once or twice: the table is
\* the one main created under config.database.table_name; the file of the path
\* is absent, or holds plain bytes or a gzip member; its .gz sibling is absent
\* or there.
VerifyInit ==
    /\ command = "verify"
    /\ args \in {f \in Flags :
                   /\ ~f.compress /\ ~f.dry_run /\ ~f.json_only /\ ~f.sql_only
                   /\ ~f.silent_failures /\ ~f.store_source_path /\ ~f.stdin
                   /\ ~f.skip_existing /\ ~f.no_hash_existing
                   /\ f.compression_level = 6}
    /\ mismatches_only \in BOOLEAN
    /\ table_name \in TableNames
    /\ \E name \in FileNames :
          /\ source = Path("in", name)
          /\ \E r \in StoredRows(source) :
                \E t \in {<<r>>, <<r, OtherRow(source)>>, <<OtherRow(source), r>>} :
                    db = (SqlTable(table_name) :> t)
          /\ \E here \in SUBSET {source, gz_path(source)} :
                \E bytes \in VerifiedContents :
                    fs = [p \in here |-> IF p = source THEN bytes
                                         ELSE compress_bytes(Bytes(1), 6)]
    /\ dest = Path("out", <<"x">>)
    /\ download = NoDownload
    /\ read_failure \in {"none", "all"}
    /\ conn_failing = FALSE
    /\ rows = <<>>
    /\ json_out = <<>>
    /\ result_json = <<>>
    /\ produced = <<>>
    /\ status = "ready"
    /\ entries = <<>>
    /\ cursor = 0
    /\ handed = <<>>
    /\ skip_json = <<>>
    /\ copies = 0
    /\ runs = 0
    /\ existing = "none"
    /\ fs_before = <<>>
    /\ paths = <<>>
    /\ verified = <<>>
    /\ InsertIdle
    /\ DownloadIdle

\* verify::execute up to the loop: get_all_paths, its error returned through `?`.
VerifyExecute ==
    /\ command = "verify"
    /\ status = "ready"
    /\ LET got == get_all_paths(db)
       IN  /\ paths' = got.paths
           /\ status' = IF got.ok THEN "walking" ELSE "err"
    /\ cursor' = 1
    /\ UNCHANGED <<inputs, fs, sinks, result_json, entries, handed, cvars, stvars,
                   mismatches_only, verified, ivars, dvars>>

\* verify::execute, one turn of the loop: verify_file on the next path; its Err
\* is returned when fail_fast is set and logged otherwise.
VerifyFile ==
    /\ command = "verify"
    /\ status = "walking"
    /\ cursor <= Len(paths)
    /\ LET r == verify_file(db, fs, paths[cursor], args, mismatches_only,
                            read_failure)
       IN  /\ verified' = Append(verified,
                                 [path |-> paths[cursor], ok |-> r.ok, out |-> r.out])
           /\ status' = IF ~r.ok /\ args.fail_fast THEN "err" ELSE "walking"
           /\ cursor' = IF ~r.ok /\ args.fail_fast THEN cursor ELSE cursor + 1
    /\ UNCHANGED <<inputs, fs, sinks, result_json, entries, handed, cvars, stvars,
                   mismatches_only, paths, ivars, dvars>>

\* verify::execute after the last path: Ok.
VerifyDone ==
    /\ command = "verify"
    /\ status = "walking"
    /\ cursor > Len(paths)
    /\ status' = "ok"
    /\ UNCHANGED <<inputs, fs, sinks, result_json, bvars, cvars, svars>>

\* No Hasher call is in progress: the Hasher variables of the pipeline.
HasherIdle == HasherInit(0) /\ config = {} /\ is_file = FALSE

\* ---------------------------------------------------------------------------
\* Start-up: configuration.rs
\* ---------------------------------------------------------------------------

\* clap's default_value_t of --retry-count and of --compression-level.
DEFAULT_RETRY_COUNT == 3
DEFAULT_COMPRESSION_LEVEL == 6

\* The retry counts and the compression levels a command line or a
\* configuration file gives.
RetryCounts == 0..MaxRetryCount \cup {DEFAULT_RETRY_COUNT}
ConfigLevels == {0, DEFAULT_COMPRESSION_LEVEL, 9, 12}

\* Option<T>: None is the empty sequence, Some(v) is <<v>>.
None == <<>>
Some(v) == <<v>>
OptionOf(S) == {None} \cup {Some(v) : v \in S}

\* format!("sqlite://{}", path) and the db_string of the built-in Config.
DbString(path) == <<"sqlite://", path>>
DefaultDbString == DbString("myhashes.db")

\* The [options] section of a configuration file, every key optional.
CfgOptions ==
    [fail_fast : OptionOf(BOOLEAN), retry_count : OptionOf(RetryCounts),
     compression_level : OptionOf(ConfigLevels)]

\* Options::default().
NoCfgOptions == [fail_fast |-> None, retry_count |-> None, compression_level |-> None]

\* The configuration files: not there, not readable, not TOML, or a Config
\* (with or without [options]).
ConfigFiles ==
    [state : {"missing", "unreadable", "invalid"}, db_string : {DbString("file.db")},
     options : {None}] \cup
    [state : {"present"}, db_string : {DbString("file.db")},
     options : OptionOf(CfgOptions)]

\* The options as typed: a flag is given or not, a value is given or not.
CommandLines ==
    [fail_fast : {None, Some(TRUE)}, retry_count : OptionOf(RetryCounts),
     compression_level : OptionOf(ConfigLevels)]

\* HasherOptions as clap parses them: what was typed, else the default.
Parse(cl) ==
    [fail_fast |-> cl.fail_fast # None,
     retry_count |-> IF cl.retry_count = None THEN DEFAULT_RETRY_COUNT
                     ELSE cl.retry_count[1],
     compression_level |-> IF cl.compression_level = None
                           THEN DEFAULT_COMPRESSION_LEVEL
                           ELSE cl.compression_level[1]]

\* configuration::get_config: the built-in Config when the file is not found
\* (returned at once), an error when it cannot be read or parsed, else the
\* file's Config with the db_string of the override, if there is one.
get_config(file, override) ==
    IF file.state = "missing"
    THEN [ok |-> TRUE, db_string |-> DefaultDbString, options |-> Some(NoCfgOptions)]
    ELSE IF file.state \in {"unreadable", "invalid"}
    THEN [ok |-> FALSE, db_string |-> <<>>, options |-> None]
    ELSE [ok |-> TRUE,
          db_string |-> IF override # None THEN DbString(override[1])
                        ELSE file.db_string,
          options |-> file.options]

\* apply_numeric_option!: the file's value when the option has its default.
apply_numeric_option(value, option, default) ==
    IF value # None /\ option = default THEN value[1] ELSE option

\* configuration::apply_config_defaults.
apply_config_defaults(o, cfg) ==
    IF cfg = None THEN o
    ELSE LET cfg_opts == cfg[1]
         IN  [fail_fast |-> IF cfg_opts.fail_fast = Some(TRUE) /\ ~o.fail_fast
                            THEN TRUE ELSE o.fail_fast,
              retry_count |-> apply_numeric_option(cfg_opts.retry_count,
                                                   o.retry_count, DEFAULT_RETRY_COUNT),
              compression_level |->
                  IF cfg_opts.compression_level # None
                     /\ o.compression_level = DEFAULT_COMPRESSION_LEVEL
                  THEN ClampLevel(cfg_opts.compression_level[1])
                  ELSE o.compression_level]

\* Nothing was typed, nothing is loaded.
NoCommandLine == [fail_fast |-> None, retry_count |-> None, compression_level |-> None]
NoConfig == [ok |-> FALSE, db_string |-> <<>>, options |-> None]

\* No start-up is modelled.
ConfigIdle ==
    /\ passed = NoCommandLine
    /\ options = Parse(NoCommandLine)
    /\ config_file = [state |-> "missing", db_string |-> DbString("file.db"),
                      options |-> None]
    /\ db_path_override = None
    /\ loaded = NoConfig
    /\ cfg_pc = "idle"

\* A command line is parsed; a configuration file is there or not.
ConfigInit ==
    /\ passed \in CommandLines
    /\ options = Parse(passed)
    /\ config_file \in ConfigFiles
    /\ db_path_override \in OptionOf({"cli.db"})
    /\ loaded = NoConfig
    /\ cfg_pc = "start"

\* main: get_config(config_file, db_path).
GetConfig ==
    /\ cfg_pc = "start"
    /\ loaded' = get_config(config_file, db_path_override)
    /\ cfg_pc' = IF loaded'.ok THEN "loaded" ELSE "error"
    /\ UNCHANGED <<passed, options, config_file, db_path_override>>

\* apply_config_defaults(&mut options, &config).
ApplyConfigDefaults ==
    /\ cfg_pc = "loaded"
    /\ options' = apply_config_defaults(options, loaded.options)
    /\ cfg_pc' = "applied"
    /\ UNCHANGED <<passed, config_file, db_path_override, loaded>>

\* ---------------------------------------------------------------------------
\* The gzip round trip: compression.rs
\* ---------------------------------------------------------------------------

\* The longest input of the round trip.
MaxGzLen == 3

\* The byte values of the inputs: the two magic bytes of gzip among them.
GzByteValues == {0, 31, 139}

\* The inputs of compress_bytes.
GzInputs(n) == UNION {[1..k -> GzByteValues] : k \in 0..n}

\* The levels given to compress_bytes: below, in and above the range of gzip.
GzLevels == 0..10

\* No round trip is modelled.
GzipIdle ==
    /\ gz_bytes = <<>>
    /\ gz_level = DEFAULT_COMPRESSION_LEVEL
    /\ gz_compressed = <<>>
    /\ gz_decompressed = [ok |-> FALSE, bytes |-> <<>>]
    /\ gz_pc = "idle"

\* Some bytes and a level.
GzipInit ==
    /\ gz_bytes \in GzInputs(MaxGzLen)
    /\ gz_level \in GzLevels
    /\ gz_compressed = <<>>
    /\ gz_decompressed = [ok |-> FALSE, bytes |-> <<>>]
    /\ gz_pc = "start"

\* compress_bytes(bytes, CompressionType::Gzip, level).
CompressBytes ==
    /\ gz_pc = "start"
    /\ gz_compressed' = compress_bytes(gz_bytes, gz_level)
    /\ gz_pc' = "compressed"
    /\ UNCHANGED <<gz_bytes, gz_level, gz_decompressed>>

\* decompress_bytes(&compressed, CompressionType::Gzip).
DecompressBytes ==
    /\ gz_pc = "compressed"
    /\ gz_decompressed' = decompress_bytes(gz_compressed)
    /\ gz_pc' = "decompressed"
    /\ UNCHANGED <<gz_bytes, gz_level, gz_compressed>>

\* ---------------------------------------------------------------------------
\* main.rs
\* ---------------------------------------------------------------------------

\* The commands and the options main reads.
MainArgs ==
    [command : {"hash", "copy", "verify", "download"}, use_wal : BOOLEAN,
     json_only : BOOLEAN, sql_only : BOOLEAN, dry_run : BOOLEAN]

\* How an init_database call ends: Ok, or a panic of one of its three
\* `.expect`s (the connection, the PRAGMA, the CREATE TABLE).
InitOutcomes == {"ok", "connect", "pragma", "create"}

\* Whether main calls init_database: hash and download unless json_only, copy
\* and verify always.
needs_db(a) == IF a.command \in {"hash", "download"} THEN ~a.json_only ELSE TRUE

\* The use_wal main passes to init_database.
passes_wal(a) == a.command = "hash" /\ a.use_wal

\* main is not modelled.
MainIdle ==
    /\ main_args = [command |-> "hash", use_wal |-> FALSE, json_only |-> FALSE,
                    sql_only |-> FALSE, dry_run |-> FALSE]
    /\ main_pc = "idle"
    /\ journal_mode = "delete"
    /\ should_close_wal = FALSE
    /\ exit_code = -1
    /\ closes = 0

\* The process starts on a database file in the default journal mode.
MainInit ==
    /\ main_args \in MainArgs
    /\ main_pc = "config"
    /\ journal_mode = "delete"
    /\ should_close_wal = FALSE
    /\ exit_code = -1
    /\ closes = 0

\* main: get_config returns the Config, or an error and exit(1).
MainGetConfig ==
    /\ main_pc = "config"
    /\ \E ok \in BOOLEAN :
          /\ main_pc' = IF ok THEN "init" ELSE "exited"
          /\ exit_code' = IF ok THEN exit_code ELSE 1
    /\ UNCHANGED <<main_args, journal_mode, should_close_wal, closes>>

\* main: init_database when the command needs the database (the PRAGMA runs
\* before the CREATE TABLE; a panic ends the process with status 101), the
\* exit(1) of hash with both sql_only and json_only, should_close_wal.
MainInitDatabase ==
    /\ main_pc = "init"
    /\ \E r \in IF needs_db(main_args) THEN InitOutcomes ELSE {"ok"} :
          /\ journal_mode' = IF needs_db(main_args) /\ passes_wal(main_args)
                                 /\ r \in {"ok", "create"}
                              THEN "wal" ELSE journal_mode
          /\ IF r # "ok"
             THEN /\ main_pc' = "exited"
                  /\ exit_code' = 101
                  /\ UNCHANGED should_close_wal
             ELSE IF main_args.command = "hash" /\ ~main_args.dry_run
                     /\ main_args.sql_only /\ main_args.json_only
             THEN /\ main_pc' = "exited"
                  /\ exit_code' = 1
                  /\ UNCHANGED should_close_wal
             ELSE /\ main_pc' = "execute"
                  /\ should_close_wal' = (needs_db(main_args) /\ passes_wal(main_args))
                  /\ UNCHANGED exit_code
    /\ UNCHANGED <<main_args, closes>>

\* main: the command's execute returns Ok, or Err and exit(1).
MainExecute ==
    /\ main_pc = "execute"
    /\ \E ok \in BOOLEAN :
          /\ main_pc' = IF ok THEN "close" ELSE "exited"
          /\ exit_code' = IF ok THEN exit_code ELSE 1
    /\ UNCHANGED <<main_args, journal_mode, should_close_wal, closes>>

\* main: close_database when should_close_wal (the PRAGMA runs when the
\* connection is made), then the end of main.
MainClose ==
    /\ main_pc = "close"
    /\ IF should_close_wal
       THEN /\ closes' = closes + 1
            /\ \E connected \in BOOLEAN :
                  journal_mode' = IF connected THEN "delete" ELSE journal_mode
       ELSE UNCHANGED <<closes, journal_mode>>
    /\ main_pc' = "exited"
    /\ exit_code' = 0
    /\ UNCHANGED <<main_args, should_close_wal>>

\* ---------------------------------------------------------------------------
\* hash_file of hasher.rs
\* ---------------------------------------------------------------------------

\* The longest file hashed.
MaxLegacyLen == 6

\* vec![0; n].
Zeros(n) == [i \in 1..n |-> 0]

\* make_buffer: a zero-filled buffer of min(file_size, CHUNK_SIZE) bytes.
make_buffer(size) == Zeros(Min(size, CHUNK_SIZE))

\* The buffer after a read of n bytes at position pos: the bytes read, then
\* what the buffer held.
Filled(buf, data, pos, n) == SubSeq(data, pos + 1, pos + n) \o Drop(buf, n)

\* The lengths file_reader.read may return on a buffer: 0 at the end of the
\* file or on an empty buffer, else at least one byte and at most what the
\* buffer takes and the file has left.
ReadLengths(buf, data, pos) ==
    IF Min(Len(buf), Len(data) - pos) = 0 THEN {0}
    ELSE 1..Min(Len(buf), Len(data) - pos)

\* No hash_file of hasher.rs is running.
LegacyIdle ==
    /\ legacy_file = <<>>
    /\ legacy_pos = 0
    /\ legacy_buffer = <<>>
    /\ legacy_read = 0
    /\ legacy_pc = "idle"
    /\ legacy_fed = <<>>
    /\ legacy_got = <<>>

\* A file that does not change.
LegacyInit ==
    /\ legacy_file \in BytesUpTo(MaxLegacyLen)
    /\ legacy_pos = 0
    /\ legacy_buffer = <<>>
    /\ legacy_read = 0
    /\ legacy_pc = "open"
    /\ legacy_fed = <<>>
    /\ legacy_got = <<>>

\* hash_file up to the loop: open_file, make_buffer, the first read.
LegacyOpen ==
    /\ legacy_pc = "open"
    /\ \E n \in ReadLengths(make_buffer(Len(legacy_file)), legacy_file, 0) :
          /\ legacy_buffer' = Filled(make_buffer(Len(legacy_file)), legacy_file, 0, n)
          /\ legacy_read' = n
          /\ legacy_pos' = n
    /\ legacy_pc' = "loop"
    /\ UNCHANGED <<legacy_file, legacy_fed, legacy_got>>

\* The branch `bytes_read < SEQUENTIAL_SIZE`: hash_buffer_sequential updates
\* every digest with buffer.read().as_slice(), the whole buffer; the next read
\* goes into the same buffer.
LegacySequential ==
    /\ legacy_pc = "loop"
    /\ legacy_read # 0
    /\ legacy_read < SEQUENTIAL_SIZE
    /\ legacy_fed' = Append(legacy_fed, legacy_buffer)
    /\ legacy_got' = Append(legacy_got,
                            SubSeq(legacy_file, legacy_pos - legacy_read + 1, legacy_pos))
    /\ \E n \in ReadLengths(legacy_buffer, legacy_file, legacy_pos) :
          /\ legacy_buffer' = Filled(legacy_buffer, legacy_file, legacy_pos, n)
          /\ legacy_read' = n
          /\ legacy_pos' = legacy_pos + n
    /\ UNCHANGED <<legacy_file, legacy_pc>>

\* The other branch: the buffer is resized to bytes_read, one thread per
\* digest updates it with the buffer, the next read goes into a second buffer
\* of make_buffer, the threads are joined, the second buffer becomes `buffer`.
LegacyThreaded ==
    /\ legacy_pc = "loop"
    /\ legacy_read >= SEQUENTIAL_SIZE
    /\ legacy_fed' = Append(legacy_fed, Take(legacy_buffer, legacy_read))
    /\ legacy_got' = Append(legacy_got,
                            SubSeq(legacy_file, legacy_pos - legacy_read + 1, legacy_pos))
    /\ \E n \in ReadLengths(make_buffer(Len(legacy_file)), legacy_file, legacy_pos) :
          /\ legacy_buffer' = Filled(make_buffer(Len(legacy_file)), legacy_file,
                                     legacy_pos, n)
          /\ legacy_read' = n
          /\ legacy_pos' = legacy_pos + n
    /\ UNCHANGED <<legacy_file, legacy_pc>>

\* `if bytes_read == 0 { break; }`, the digests are finalized.
LegacyBreak ==
    /\ legacy_pc = "loop"
    /\ legacy_read = 0
    /\ legacy_pc' = "done"
    /\ UNCHANGED <<legacy_file, legacy_pos, legacy_buffer, legacy_read, legacy_fed,
                   legacy_got>>

\* The variables of the specifications of these sections, in the others.
ExtraIdle == ConfigIdle /\ GzipIdle /\ MainIdle /\ LegacyIdle

Init == HasherInit(MaxCalls) /\ PipelineIdle /\ StoreIdle /\ ExtraIdle

InitTamper == HasherInit(1) /\ is_file /\ PipelineIdle /\ StoreIdle /\ ExtraIdle

InitIngest == HasherIdle /\ PipelineInit /\ StoreIdle /\ ExtraIdle

InitBatch == HasherIdle /\ BatchInit /\ StoreIdle /\ ExtraIdle

InitCopy == HasherIdle /\ CopyInit /\ StoreIdle /\ ExtraIdle

InitVerify == HasherIdle /\ VerifyInit /\ ExtraIdle

InitStore == HasherIdle /\ PipelineIdle /\ StoreInit /\ ExtraIdle

InitDownload == HasherIdle /\ DownloadInit /\ ExtraIdle

InitConfig ==
    /\ HasherIdle /\ PipelineIdle /\ StoreIdle
    /\ ConfigInit /\ GzipIdle /\ MainIdle /\ LegacyIdle

InitGzip ==
    /\ HasherIdle /\ PipelineIdle /\ StoreIdle
    /\ ConfigIdle /\ GzipInit /\ MainIdle /\ LegacyIdle

InitMain ==
    /\ HasherIdle /\ PipelineIdle /\ StoreIdle
    /\ ConfigIdle /\ GzipIdle /\ MainInit /\ LegacyIdle

InitLegacy ==
    /\ HasherIdle /\ PipelineIdle /\ StoreIdle
    /\ ConfigIdle /\ GzipIdle /\ MainIdle /\ LegacyInit

HashFileStep ==
    \/ validate_file /\ UNCHANGED <<pvars, svars, xvars>>
    \/ ProbeStart /\ UNCHANGED <<pvars, svars, xvars>>
    \/ ReadDirect /\ UNCHANGED <<pvars, svars, xvars>>
    \/ ReadFill /\ UNCHANGED <<pvars, svars, xvars>>
    \/ ReadBuffered /\ UNCHANGED <<pvars, svars, xvars>>
    \/ ReadEof /\ UNCHANGED <<pvars, svars, xvars>>
    \/ ReadInterrupted /\ UNCHANGED <<pvars, svars, xvars>>
    \/ ReadError /\ UNCHANGED <<pvars, svars, xvars>>
    \/ Probe /\ UNCHANGED <<pvars, svars, xvars>>
    \/ \E w \in workers : WorkerUpdate(w) /\ UNCHANGED <<pvars, svars, xvars>>
    \/ Join /\ UNCHANGED <<pvars, svars, xvars>>
    \/ Finalize /\ UNCHANGED <<pvars, svars, xvars>>

\* The external writer.
WriterStep ==
    \/ WriterAppend /\ UNCHANGED <<pvars, svars, xvars>>
    \/ WriterTruncate /\ UNCHANGED <<pvars, svars, xvars>>

Next ==
    \/ HashFileStep
    \/ \E b \in BytesUpTo(MaxBufLen) : HashSingleBuffer(b) /\ UNCHANGED <<pvars, svars, xvars>>

NextTamper ==
    \/ HashFileStep
    \/ WriterStep

NextIngest ==
    \/ HashCommand /\ UNCHANGED <<hvars, svars, xvars>>
    \/ CopyCommand /\ UNCHANGED <<hvars, svars, xvars>>
    \/ DownloadCommand /\ UNCHANGED <<hvars, svars, xvars>>

NextBatch ==
    \/ ProcessEntry /\ UNCHANGED <<hvars, svars, xvars>>
    \/ WalkDone /\ UNCHANGED <<hvars, svars, xvars>>

NextCopy ==
    \/ CopyCommand /\ UNCHANGED <<hvars, svars, xvars>>
    \/ CopyAgain /\ UNCHANGED <<hvars, svars, xvars>>

NextVerify ==
    \/ VerifyExecute /\ UNCHANGED <<hvars, xvars>>
    \/ VerifyFile /\ UNCHANGED <<hvars, xvars>>
    \/ VerifyDone /\ UNCHANGED <<hvars, xvars>>

NextStore ==
    \/ init_database /\ UNCHANGED <<hvars, pvars, xvars>>
    \/ InsertOk /\ UNCHANGED <<hvars, pvars, xvars>>
    \/ InsertErr /\ UNCHANGED <<hvars, pvars, xvars>>
    \/ InsertSleep /\ UNCHANGED <<hvars, pvars, xvars>>
    \/ Lookup /\ UNCHANGED <<hvars, pvars, xvars>>

NextDownload ==
    \/ DownloadStart /\ UNCHANGED <<hvars, xvars>>
    \/ DownloadSleep /\ UNCHANGED <<hvars, xvars>>
    \/ AttemptOk /\ UNCHANGED <<hvars, xvars>>
    \/ AttemptErr /\ UNCHANGED <<hvars, xvars>>
    \/ ProcessResult /\ UNCHANGED <<hvars, xvars>>

\* The Hasher used by one caller on a file nobody else touches.
NextConfig ==
    \/ GetConfig /\ UNCHANGED <<hvars, pvars, svars, zvars, mvars, lvars>>
    \/ ApplyConfigDefaults /\ UNCHANGED <<hvars, pvars, svars, zvars, mvars, lvars>>

NextGzip ==
    \/ CompressBytes /\ UNCHANGED <<hvars, pvars, svars, kvars, mvars, lvars>>
    \/ DecompressBytes /\ UNCHANGED <<hvars, pvars, svars, kvars, mvars, lvars>>

NextMain ==
    \/ MainGetConfig /\ UNCHANGED <<hvars, pvars, svars, kvars, zvars, lvars>>
    \/ MainInitDatabase /\ UNCHANGED <<hvars, pvars, svars, kvars, zvars, lvars>>
    \/ MainExecute /\ UNCHANGED <<hvars, pvars, svars, kvars, zvars, lvars>>
    \/ MainClose /\ UNCHANGED <<hvars, pvars, svars, kvars, zvars, lvars>>

NextLegacy ==
    \/ LegacyOpen /\ UNCHANGED <<hvars, pvars, svars, kvars, zvars, mvars>>
    \/ LegacySequential /\ UNCHANGED <<hvars, pvars, svars, kvars, zvars, mvars>>
    \/ LegacyThreaded /\ UNCHANGED <<hvars, pvars, svars, kvars, zvars, mvars>>
    \/ LegacyBreak /\ UNCHANGED <<hvars, pvars, svars, kvars, zvars, mvars>>

Spec == Init /\ [][Next]_vars

\* hash_file racing with a writer of the same file.
SpecTamper == InitTamper /\ [][NextTamper]_vars

\* One run of the hash, copy or download command on one file.
SpecIngest == InitIngest /\ [][NextIngest]_vars

\* The copy command repeated on one file.
SpecCopy == InitCopy /\ [][NextCopy]_vars

\* The hash command walking a directory.
SpecBatch == InitBatch /\ [][NextBatch]_vars

\* The verify command on a store.
SpecVerify == InitVerify /\ [][NextVerify]_vars

\* init_database, one insert_single_hash, one get_file_hashes.
SpecStore == InitStore /\ [][NextStore]_vars

\* The same where the call is scheduled as long as it can take a step: the
\* executor polls the future again after each await, the sleep ends after
\* DB_RETRY_DELAY, and query.execute returns.
SpecStoreLive == SpecStore /\ WF_vars(NextStore)

\* The start-up: the configuration is loaded and applied to the options.
SpecConfig == InitConfig /\ [][NextConfig]_vars

\* One hash_file call of hasher.rs.
SpecLegacy == InitLegacy /\ [][NextLegacy]_vars

\* One run of main.
SpecMain == InitMain /\ [][NextMain]_vars

\* One compress_bytes call and decompress_bytes on its result.
SpecGzip == InitGzip /\ [][NextGzip]_vars

\* One download_file call and process_download_result on its result.
SpecDownload == InitDownload /\ [][NextDownload]_vars

\* ------------------------------------------------------- the streaming hasher

\* A call on the Hasher has returned Ok.
ReturnedOk == pc = "idle" /\ ret.kind = "ok"

\* The bytes the call that returned was asked to hash: the file's bytes when
\* hash_file was called, the buffer given to hash_single_buffer.
Input == IF op = "file" THEN f0 ELSE Flatten(fed)

\* C1: a Hasher is reusable after finalization, crc32 included: when every
\* earlier call on it returned Ok, a call on input B returns the record a fresh
\* Hasher of the same config returns for B.
C1_ReusableAfterFinalize ==
    (ReturnedOk /\ clean) =>
        ret.results = hash_single_buffer(NewHasher(config), Input).results

\* feeding the chunks one after the other through hash_buffer_sequential.
RECURSIVE SequentialFold(_, _)
SequentialFold(h, chunks) ==
    IF chunks = <<>> THEN h
    ELSE SequentialFold(hash_buffer_sequential(h, Head(chunks)), Tail(chunks))

\* C2: for a file that does not change during the call, whatever the chunks the
\* read loop split it into, hash_file returns the digests hash_single_buffer
\* returns on the file's whole byte sequence (from the same Hasher state).
C2_FileEqualsSingleBuffer ==
    (ReturnedOk /\ op = "file") =>
        ret.results = hash_single_buffer(h0, f0).results

\* C2 witness: hash_file returned a record for a file longer than CHUNK_SIZE
\* that was read as a threaded chunk followed by reads into the truncated buffer.
C2_Witness ==
    /\ ReturnedOk /\ op = "file"
    /\ Len(f0) > CHUNK_SIZE
    /\ Len(fed) >= 3
    /\ Len(fed[1]) >= SEQUENTIAL_SIZE
    /\ config = Algorithms

\* C3: when the threads of hash_buffer_threaded have all run, every digest,
\* crc32 included, is in the state hash_buffer_sequential leaves it in; and the
\* record a call returns is the one obtained by feeding its chunks through
\* hash_buffer_sequential.
C3_ThreadedEqualsSequential ==
    /\ (pc = "threads" /\ workers = {}) =>
            Self = hash_buffer_sequential(hpre, chunk)
    /\ ReturnedOk =>
            ret.results = FinalizeResults(
                SequentialFold(h0, SelectSeq(fed, LAMBDA c : c # <<>>)))

\* C3 witness: a call that dispatched a chunk to one thread per digest, crc32
\* included, has returned its record.
C3_Witness ==
    /\ ReturnedOk
    /\ config = Algorithms
    /\ \E i \in DOMAIN fed : Len(fed[i]) >= SEQUENTIAL_SIZE

\* C4: an append by a concurrent writer at any point after hash_file started
\* (its open) and before its final end-of-file read makes hash_file return no
\* record.
C4_AppendDetected ==
    (pc = "idle" /\ op = "file"
        /\ \E w \in written : w[1] = "append" /\ w[2] # "finalize")
    => ret.kind # "ok"

\* C5: the size hash_file returns is the number of bytes it fed into the
\* digests, whatever a concurrent writer does.
C5_SizeIsBytesFed ==
    (ReturnedOk /\ op = "file") => ret.size = Len(Flatten(fed))

\* C6: the finalized list holds each enabled algorithm exactly once and no
\* disabled one, crc32 first when enabled, the others in registry order.
C6_RegistryOrder ==
    ReturnedOk =>
        LET r == ret.results IN
        /\ \A a \in config : Cardinality({i \in DOMAIN r : r[i].name = a}) = 1
        /\ \A i \in DOMAIN r : r[i].name \in config
        /\ "crc32" \in config => r[1].name = "crc32"
        /\ \A i, j \in DOMAIN r :
              (i < j /\ r[i].name # "crc32" /\ r[j].name # "crc32")
                  => RegistryIndex(r[i].name) < RegistryIndex(r[j].name)

\* C6 witness: the second call on a Hasher with every algorithm enabled has
\* returned its list.
C6_Witness ==
    /\ ReturnedOk
    /\ calls_left = 0
    /\ config = Algorithms
    /\ Len(ret.results) = Cardinality(Algorithms)

\* ------------------------------------------------------------ the pipeline

\* The bytes of the input file of the run.
SourceBytes == fs[source]

\* The run hashed its input: every read succeeded and the handler returned Ok.
Hashed == status = "ok" /\ read_failure = "none"

\* The input can be decompressed when its path says it is gzip.
WellFormed == is_compressed_path(source) => IsGzip(SourceBytes)

\* Record r is the record of these bytes: their length and the digests a fresh
\* Hasher of the configuration returns for them.
Over(r, bytes) == r.size = Len(bytes) /\ r.hashes = process_file(bytes).hashes

\* How often r occurs in a sink.
Count(sink, r) == Cardinality({i \in DOMAIN sink : sink[i] = r})

\* C7: with hash_both unset, process_single_file produces exactly one record,
\* over the bytes of the decision matrix: for a .gz path, gunzip(S) when
\* decompress or hash_uncompressed is set and S otherwise; for a raw path,
\* gzip(S) when hash_compressed is set and S otherwise.
C7_DecisionMatrix ==
    LET MatrixBytes ==
            IF is_compressed_path(source)
            THEN IF args.decompress \/ args.hash_uncompressed
                 THEN decompress_bytes(SourceBytes).bytes
                 ELSE SourceBytes
            ELSE IF args.hash_compressed
                 THEN compress_bytes(SourceBytes, args.compression_level)
                 ELSE SourceBytes
    IN  (command = "hash" /\ Hashed /\ WellFormed /\ ~args.hash_both) =>
            /\ Len(produced) = 1
            /\ Over(produced[1], MatrixBytes)

\* C8: with hash_both set, the hash and copy commands produce exactly two
\* records for any input, raw or .gz, whatever the other flags: one over the
\* bytes as stored and one over the transformed bytes.
C8_HashBothTwoRecords ==
    LET Transformed ==
            IF is_compressed_path(source)
            THEN decompress_bytes(SourceBytes).bytes
            ELSE compress_bytes(SourceBytes, args.compression_level)
    IN  (command \in {"hash", "copy"} /\ Hashed /\ WellFormed /\ args.hash_both
            /\ ~args.dry_run) =>
            /\ Len(produced) = 2
            /\ \E i, j \in DOMAIN produced :
                  /\ i # j
                  /\ Over(produced[i], SourceBytes)
                  /\ Over(produced[j], Transformed)

\* C9: with hash_both set and a .gz input, in the hash and copy commands the
\* record of the decompressed bytes is stored and emitted under the path with
\* .gz stripped and the record of the compressed bytes under the original
\* path, so the two records never share a path.
C9_HashBothPaths ==
    (command \in {"hash", "copy"} /\ Hashed /\ args.hash_both /\ ~args.dry_run
        /\ is_compressed_path(source) /\ IsGzip(SourceBytes)) =>
        \A r \in Range(produced) \cup Range(rows) \cup Range(json_out) :
            /\ r.size = Len(SourceBytes) => r.path = source
            /\ r.size = Len(decompress_bytes(SourceBytes).bytes) =>
                   r.path = strip_extension(source)

\* C10: with dry_run unset, in the hash, copy and download commands, for every
\* record produced exactly one row is inserted iff json_only is unset and
\* exactly one JSON object is emitted iff sql_only is unset.
C10_SinkRouting ==
    (command \in {"hash", "copy", "download"} /\ status = "ok" /\ ~args.dry_run) =>
        \A r \in Range(produced) :
            /\ Count(rows, r) = 1 <=> ~args.json_only
            /\ Count(json_out, r) = 1 <=> ~args.sql_only

\* C11: with dry_run set, no run of the hash command (directory walk or
\* stdin), of the copy command or of the download command inserts a database
\* row or emits a hash JSON object, whatever the other flags.
C11_DryRunNoSinks ==
    (command \in {"hash", "copy", "download"} /\ args.dry_run) =>
        rows = <<>> /\ json_out = <<>>

\* An entry whose processing meets an error: its file cannot be read, it is a
\* .gz file that is not gzip and has to be decompressed, its hashing fails, or
\* the INSERT of its record fails.
Faulty(e) ==
    /\ IsHanded(e)
    /\ \/ e.read_failure = "all"
       \/ e.read_failure = "hash_file"
              /\ ~(is_compressed_path(e.path) \/ args.hash_compressed)
       \/ /\ is_compressed_path(e.path) /\ ~IsGzip(e.bytes)
          /\ (args.hash_both \/ args.decompress)
       \/ e.insert_fails /\ ~args.json_only

\* C12: in a directory batch with fail_fast unset an error on one input never
\* aborts the batch, and every discovered input is processed; with fail_fast
\* set the first input with an error aborts the batch with that error.
C12_BatchErrors ==
    command = "batch" =>
        /\ ~args.fail_fast => status # "err"
        /\ (~args.fail_fast /\ status = "ok") => cursor = Len(entries) + 1
        /\ (args.fail_fast /\ status # "ready") =>
               (status = "err" <=> \E i \in DOMAIN entries : Faulty(entries[i]))
        /\ (args.fail_fast /\ status = "err") =>
               /\ Faulty(entries[cursor])
               /\ \A i \in 1..(cursor - 1) : ~Faulty(entries[i])

\* C13: copy with compression is idempotent under skip_existing: when the
\* copy of a raw file with compress and skip_existing is run a second time on
\* the files the first run left, file_existing returns true: a skipped JSON is
\* emitted and copy_file is not executed again.
C13_CompressSkipIdempotent ==
    (command = "copy" /\ runs = 2 /\ status = "ok" /\ read_failure = "none"
        /\ args.compress /\ args.skip_existing /\ ~is_compressed_path(source)) =>
        /\ copies <= 1
        /\ skip_json # <<>>

\* The destination copy_and_hash_file decides on.
FinalDest == get_final_dest(dest, args)

\* file_existing compared the two files in the last run: skip_existing is set,
\* the destination existed, both files could be read and decompressed.
Compared ==
    /\ command = "copy" /\ runs >= 1
    /\ args.skip_existing
    /\ FinalDest \in DOMAIN fs_before
    /\ existing \in {"true", "false"}

\* C14 as stated: with skip_existing set and the destination existing,
\* file_existing returns true iff the comparison bytes of source and
\* destination are equal, for every flag combination including
\* no_hash_existing. The comparison bytes of a side are those of the decision
\* matrix: gunzip for a .gz path under decompress or hash_uncompressed, gzip
\* for a raw path under hash_compressed, the bytes as stored otherwise.
C14_ExistingIffEqualBytes ==
    LET MatrixSide(p) ==
            IF is_compressed_path(p) /\ (args.decompress \/ args.hash_uncompressed)
            THEN decompress_bytes(fs_before[p]).bytes
            ELSE IF ~is_compressed_path(p) /\ args.hash_compressed
            THEN compress_bytes(fs_before[p], args.compression_level)
            ELSE fs_before[p]
    IN  Compared =>
            (existing = "true" <=> MatrixSide(source) = MatrixSide(FinalDest))

\* C14, amended: with skip_existing set and the destination existing,
\* file_existing returns true iff the comparison bytes of source and
\* destination have the same length and, unless no_hash_existing is set, are
\* equal.
C14_ExistingIffEquivalent ==
    LET MatrixSide(p) ==
            IF is_compressed_path(p) /\ (args.decompress \/ args.hash_uncompressed)
            THEN decompress_bytes(fs_before[p]).bytes
            ELSE IF ~is_compressed_path(p) /\ args.hash_compressed
            THEN compress_bytes(fs_before[p], args.compression_level)
            ELSE fs_before[p]
    IN  Compared =>
            (existing = "true" <=>
                /\ Len(MatrixSide(source)) = Len(MatrixSide(FinalDest))
                /\ \/ args.no_hash_existing
                   \/ MatrixSide(source) = MatrixSide(FinalDest))

\* A .gz source is found equivalent to the plain destination left by an
\* earlier decompressing copy, by hash.
C14_Witness ==
    /\ Compared
    /\ existing = "true"
    /\ ~args.no_hash_existing
    /\ args.decompress
    /\ is_compressed_path(source)
    /\ fs_before[source] # fs_before[FinalDest]

\* C15: after a copy that is not skipped, every record stored or emitted for
\* the pair (source, dest) carries the path final_dest when store_source_path
\* is unset and the path source when it is set, whatever the compression and
\* hashing flags.
C15_StoredPath ==
    (command = "copy" /\ runs >= 1) =>
        \A r \in Range(rows) \cup Range(json_out) :
            r.path = IF args.store_source_path THEN source ELSE FinalDest

\* ------------------------------------------------------------------ verify

\* What verify reads of the first stored row of path A.
FirstRow(A) == extract_stored_hashes(get_file_hashes(db, A).results)

\* The row holds the two digests verify requires.
HoldsBoth(A) == FirstRow(A).found_crc32 /\ FirstRow(A).found_sha256

\* The bytes an ideal digest was computed from.
BytesOf(digest) == digest[2]

\* Neither the path nor its .gz sibling is on disk.
Missing(A) == A \notin DOMAIN fs /\ gz_path(A) \notin DOMAIN fs

\* The file verify reads for A: A itself, or its .gz sibling when A is gone.
Target(A) == IF A \in DOMAIN fs THEN A ELSE gz_path(A)

\* The bytes the compression-aware decision matrix selects for A under the
\* flags of the run.
SelectedBytes(A) ==
    LET data == fs[Target(A)]
        compressed == IF is_compressed_path(Target(A)) THEN data
                      ELSE compress_bytes(data, args.compression_level)
    IN  IF ~is_compressed_path(Target(A)) /\ ~args.hash_compressed THEN data
        ELSE IF args.hash_both /\ args.hash_compressed THEN compressed
        ELSE IF args.hash_both \/ args.decompress \/ args.hash_uncompressed
        THEN decompress_bytes(compressed).bytes
        ELSE compressed

\* No flag of the run changes which bytes are hashed.
PlainFlags ==
    /\ ~args.decompress /\ ~args.hash_both
    /\ ~args.hash_compressed /\ ~args.hash_uncompressed

\* C16: when the first stored row of a path A holds the crc32 and the sha256
\* of some bytes and the file A now holds other bytes (which verify hashes as
\* they are), the verify_file call for A prints exactly one object, with
\* valid = false and algorithm = "sha256", whose original is A, the stored size
\* and the stored sha256 and whose current is A, the size of the file and its
\* sha256.
C16_VerifyMismatch ==
    \A i \in DOMAIN verified :
        LET A == verified[i].path
            row == FirstRow(A)
        IN  (/\ HoldsBoth(A)
             /\ BytesOf(row.stored_crc32) = BytesOf(row.stored_sha256)
             /\ A \in DOMAIN fs
             /\ PlainFlags
             /\ read_failure = "none"
             /\ fs[A] # BytesOf(row.stored_sha256))
            => /\ Len(verified[i].out) = 1
               /\ verified[i].out[1] =
                     [valid |-> FALSE,
                      original |-> [path |-> A, size |-> row.stored_size,
                                    hash |-> Hex(row.stored_sha256)],
                      current |-> <<[path |-> A, size |-> Len(fs[A]),
                                     hash |-> Hex(DigestBytes("sha256", fs[A]))]>>,
                      algorithm |-> <<"sha256">>]

\* The first of crc32, sha256 whose digest of the file differs from the stored
\* one.
FirstDiffering(A) ==
    IF DigestBytes("crc32", fs[A]) # FirstRow(A).stored_crc32 THEN "crc32" ELSE "sha256"

\* The stored digest of an algorithm.
StoredHash(A, algorithm) ==
    IF algorithm = "crc32" THEN FirstRow(A).stored_crc32 ELSE FirstRow(A).stored_sha256

\* The verify_file call i was made on a present file that is hashed as it is
\* and whose crc32 or sha256 differs from the one in the first row of its path.
ChangedFile(i) ==
    LET A == verified[i].path
    IN  /\ HoldsBoth(A)
        /\ A \in DOMAIN fs
        /\ PlainFlags
        /\ read_failure = "none"
        /\ \/ DigestBytes("crc32", fs[A]) # FirstRow(A).stored_crc32
           \/ DigestBytes("sha256", fs[A]) # FirstRow(A).stored_sha256

\* C16 (amended): when the first stored row of a path A holds crc32 and sha256
\* and the file A, hashed as it is, has another crc32 or another sha256, the
\* verify_file call for A prints exactly one object, with valid = false and
\* algorithm the first of crc32, sha256 that differs, whose original is A, the
\* stored size and the stored digest of that algorithm and whose current is A,
\* the size of the file and its digest of that algorithm.
C16_VerifyMismatchFirstDiffering ==
    \A i \in DOMAIN verified :
        LET A == verified[i].path
        IN  ChangedFile(i)
            => /\ Len(verified[i].out) = 1
               /\ verified[i].out[1] =
                     [valid |-> FALSE,
                      original |-> [path |-> A, size |-> FirstRow(A).stored_size,
                                    hash |-> Hex(StoredHash(A, FirstDiffering(A)))],
                      current |-> <<[path |-> A, size |-> Len(fs[A]),
                                     hash |-> Hex(DigestBytes(FirstDiffering(A), fs[A]))]>>,
                      algorithm |-> <<FirstDiffering(A)>>]

\* A file whose crc32 and sha256 both differ from the stored ones was verified
\* and reported under crc32.
C16_Witness ==
    \E i \in DOMAIN verified :
        /\ ChangedFile(i)
        /\ DigestBytes("crc32", fs[verified[i].path])
              # FirstRow(verified[i].path).stored_crc32
        /\ DigestBytes("sha256", fs[verified[i].path])
              # FirstRow(verified[i].path).stored_sha256
        /\ Len(verified[i].out) = 1
        /\ verified[i].out[1].algorithm = <<"crc32">>

\* The recomputed crc32 or sha256 of A differs from the stored one.
Mismatches(A) ==
    \/ DigestBytes("crc32", SelectedBytes(A)) # FirstRow(A).stored_crc32
    \/ DigestBytes("sha256", SelectedBytes(A)) # FirstRow(A).stored_sha256

\* C17: for every verify_file call on a path whose first row holds crc32 and
\* sha256 and whose file is missing or was hashed without error, one object is
\* printed when mismatches_only is unset, and when it is set one is printed
\* exactly if the file is missing or a recomputed digest differs from the
\* stored one; a call on a path whose first row lacks crc32 or sha256 prints
\* nothing.
C17_EmissionRule ==
    \A i \in DOMAIN verified :
        LET A == verified[i].path
            n == Len(verified[i].out)
        IN  /\ ~HoldsBoth(A) => n = 0
            /\ (HoldsBoth(A) /\ verified[i].ok)
               => IF ~mismatches_only THEN n = 1
                  ELSE n = (IF Missing(A) \/ Mismatches(A) THEN 1 ELSE 0)

\* ------------------------------------------------------------------- store

\* The (algorithm, (size, bytes)) entries of the record that was inserted.
Inserted ==
    {[name |-> record.hashes[i].name, size |-> record.size,
      bytes |-> record.hashes[i].bytes] : i \in DOMAIN record.hashes}

\* C18: after init_database under the configured table name and a successful
\* insert of a record into a store without rows, the lookup of the record's
\* path succeeds and returns exactly the inserted algorithms, each once, with
\* the inserted size and digest bytes.
C18_StoreRoundTrip ==
    (store_pc = "looked" /\ insert_ret = "Ok")
    => /\ lookup.ok
       /\ Range(lookup.results) = Inserted
       /\ Len(lookup.results) = Cardinality(Inserted)

\* insert_single_hash has returned.
InsertReturned == store_pc \in {"returned", "looked"}

\* The rows of the configured table (it was empty when the call began).
InsertedRows == IF SqlTable(table_name) \in DOMAIN db THEN db[SqlTable(table_name)] ELSE <<>>

\* What holds of the retry loop at every moment: the INSERT is executed at
\* most MAX_DB_RETRIES + 1 times and again only after a BUSY error; a call
\* that returned Ok inserted one row, the record's; one whose last execution
\* failed inserted none and returned DbLocked if that error was BUSY (the
\* budget being spent) and the error itself otherwise.
RetryDiscipline ==
    /\ executions <= MAX_DB_RETRIES + 1
    /\ retries <= MAX_DB_RETRIES
    /\ \A i \in DOMAIN errors :
          (i < executions \/ ~InsertReturned) => IsBusy(errors[i])
    /\ InsertReturned =>
          IF Len(errors) < executions
          THEN /\ insert_ret = "Ok"
               /\ InsertedRows = <<InsertedRow(record)>>
          ELSE /\ InsertedRows = <<>>
               /\ IF IsBusy(errors[Len(errors)])
                  THEN insert_ret = "DbLocked" /\ executions = MAX_DB_RETRIES + 1
                  ELSE insert_ret = "Database"
    /\ ~InsertReturned => InsertedRows = <<>> /\ insert_ret = "none"

\* C19: the insert retry loop terminates; it re-executes the INSERT only after
\* a BUSY error and at most 3 times, returns DbLocked when BUSY outlasts that
\* budget, returns any other error at once, and on success returns Ok with
\* exactly one row inserted.
C19_InsertRetry == []RetryDiscipline /\ <>InsertReturned

\* BUSY on all four executions: DbLocked.
C19_Witness ==
    /\ insert_ret = "DbLocked"
    /\ executions = MAX_DB_RETRIES + 1
    /\ \A i \in DOMAIN errors : IsBusy(errors[i])

\* ----------------------------------------------------------------- download

\* download_file has returned.
Downloaded == dl_pc \in {"done", "processed"}

\* C20: download_file makes at most retry_count + 1 attempts, sleeps before
\* every attempt after the first, makes no attempt after a successful one, and
\* returns success = false exactly when retry_count + 1 attempts were made and
\* all failed or when the parent directory could not be created.
C20_DownloadRetries ==
    /\ Len(fetches) <= retry_count + 1
    /\ \A i \in DOMAIN fetches :
          /\ i > 1 => (i - 1 \in DOMAIN sleeps /\ sleeps[i - 1] = i - 1)
          /\ fetches[i] = "ok" => i = Len(fetches)
    /\ Len(sleeps) <= Len(fetches)
    /\ Downloaded =>
          (~dl_result.success
           <=> \/ parent = "failed"
               \/ /\ Len(fetches) = retry_count + 1
                  /\ \A i \in DOMAIN fetches : fetches[i] # "ok")

\* Every attempt of a Downloader with retries failed.
C20_Witness ==
    /\ Downloaded
    /\ retry_count > 0
    /\ Len(fetches) = retry_count + 1
    /\ Len(sleeps) = retry_count
    /\ ~dl_result.success

\* ---------------------------------------------------------------------------
\* The no_clobber skip
\* ---------------------------------------------------------------------------

\* The JSON object of a skip.
SkippedJson == [type |-> "download_skipped", error |-> FileExists]

\* C21: with no_clobber set and the destination there at the call,
\* download_file makes no fetch attempt and writes nothing, returns success
\* with the file-exists sentinel and the size on disk; its result is of type
\* download_skipped (the only object printed, and printed unless sql_only
\* without json_only), and process_single_file is not called on it.
C21_NoClobberSkip ==
    (Downloaded /\ no_clobber /\ existed) =>
        /\ fetches = <<>>
        /\ sleeps = <<>>
        /\ writes = 0
        /\ dl_result = [success |-> TRUE, error |-> FileExists, size |-> dest_size]
        /\ build_result_json(dl_result) = SkippedJson
        /\ ~ingested
        /\ dl_pc = "processed" =>
              /\ status = "ok"
              /\ result_json = IF ~args.sql_only \/ args.json_only
                                THEN <<SkippedJson>> ELSE <<>>

\* A destination of one byte was skipped and the skip was printed.
C21_Witness ==
    /\ dl_pc = "processed"
    /\ no_clobber
    /\ existed
    /\ dl_result.size = MaxDataLen
    /\ result_json = <<SkippedJson>>

\* ---------------------------------------------------------------------------
\* The error of a successful download
\* ---------------------------------------------------------------------------

\* C30: a DownloadResult with success = true has no error unless it is the
\* no_clobber sentinel, also after failed attempts; every JSON object of type
\* download_success has error null.
C30_SuccessHasNoError ==
    /\ (Downloaded /\ dl_result.success) => dl_result.error \in {"none", FileExists}
    /\ \A i \in 1..Len(result_json) :
          result_json[i].type = "download_success" => result_json[i].error = "none"

\* ---------------------------------------------------------------------------
\* The command line and the configuration file
\* ---------------------------------------------------------------------------

\* C22: a db_path override gives the db_string sqlite://<path>, with the
\* configuration file there or missing; apply_config_defaults replaces no
\* value that was typed, also not one equal to the built-in default.
C22_CliOverridesConfig ==
    /\ (cfg_pc \in {"loaded", "applied"} /\ db_path_override # None)
           => loaded.db_string = DbString(db_path_override[1])
    /\ cfg_pc = "applied" =>
          /\ passed.fail_fast # None => options.fail_fast = passed.fail_fast[1]
          /\ passed.retry_count # None => options.retry_count = passed.retry_count[1]
          /\ passed.compression_level # None
                => options.compression_level = passed.compression_level[1]

\* ---------------------------------------------------------------------------
\* The gzip round trip
\* ---------------------------------------------------------------------------

NameChars ==
    "hashes" :> <<"h", "a", "s", "h", "e", "s">> @@
    "files" :> <<"f", "i", "l", "e", "s">> @@
    "main.files" :> <<"m", "a", "i", "n", ".", "f", "i", "l", "e", "s">>

Letters ==
    {"a", "b", "c", "d", "e", "f", "g", "h", "i", "j", "k", "l", "m", "n", "o", "p",
     "q", "r", "s", "t", "u", "v", "w", "x", "y", "z"}

Digits == {"0", "1", "2", "3", "4", "5", "6", "7", "8", "9"}

\* [A-Za-z_][A-Za-z0-9_]* (the names here are in lower case).
IsIdentifier(name) ==
    LET c == NameChars[name]
    IN  /\ Len(c) >= 1
        /\ c[1] \in Letters \cup {"_"}
        /\ \A i \in 2..Len(c) : c[i] \in Letters \cup Digits \cup {"_"}

\* C24: with a table name that is not an identifier, init_database and
\* insert_single_hash return an error and execute no SQL that contains the
\* name: no table is created, no statement is executed, no row is inserted.
C24_TableNameValidated ==
    ~IsIdentifier(table_name) =>
        /\ store_pc \notin {"execute", "sleep"}
        /\ executions = 0
        /\ \A t \in DOMAIN db : t = SelectTable /\ db[t] = <<>>
        /\ insert_ret # "Ok"

\* ---------------------------------------------------------------------------
\* The threads of hash_buffer_threaded
\* ---------------------------------------------------------------------------

\* The bytes digest w (0 is crc32) has absorbed in the running call: every
\* chunk handed to hash_buffer, the last one only when its thread has run.
Absorbed(w) ==
    IF pc = "threads" /\ w \in workers
    THEN Flatten(SubSeq(fed, 1, Len(fed) - 1))
    ELSE Flatten(fed)

\* C25: during a call every enabled digest has absorbed exactly the chunks
\* read, in order and each once (the last one as soon as its thread has run),
\* and threads are pending only inside hash_buffer_threaded: the next read,
\* the next chunk and the finalization start when every thread has finished.
C25_ChunksInOrder ==
    /\ pc # "threads" => workers = {}
    /\ pc = "threads" => chunk = fed[Len(fed)]
    /\ pc # "idle" =>
          /\ \A i \in DOMAIN hashes :
                hashes[i].st = h0.hashes[i].st \o Absorbed(i)
          /\ crc32_hasher.some =>
                crc32_hasher.st = h0.crc32_hasher.st \o Absorbed(0)

\* A hash_file call is in a chunk after its first, crc32 enabled: of the
\* threads of this chunk some have updated their digest and some have not.
C25_Witness ==
    /\ op = "file"
    /\ pc = "threads"
    /\ Len(fed) >= 2
    /\ workers # {}
    /\ workers # WorkerIds(Self)
    /\ 0 \in WorkerIds(Self)

\* ---------------------------------------------------------------------------
\* The Hasher after a failed hash_file
\* ---------------------------------------------------------------------------

\* The byte sequences a record of the copied file may cover: the bytes of a
\* file of the run as stored, or decompressed.
Coverable ==
    UNION {{fs[f], decompress_bytes(fs[f]).bytes} : f \in DOMAIN fs}

\* The digests of a record other than crc32 (whose state outlives every
\* finalization).
Resetting(r) == {i \in DOMAIN r.hashes : r.hashes[i].name # "crc32"}

\* C26: when hash_file fails part-way and fail_fast is unset, no record is
\* produced whose digests cover bytes absorbed before the failure: every
\* digest of every record covers the bytes of a file, as stored or
\* decompressed, and nothing else.
C26_NoRecordFromFailedHasher ==
    (status # "ready" /\ HashFileFails(read_failure) /\ ~args.fail_fast) =>
        \A n \in DOMAIN produced :
            \A i \in Resetting(produced[n]) :
                BytesOf(produced[n].hashes[i].bytes) \in Coverable

\* ---------------------------------------------------------------------------
\* The journal mode at exit
\* ---------------------------------------------------------------------------

\* C27: when init_database has switched the journal mode to WAL,
\* close_database has run by the time the process has exited, on the fatal
\* exit(1) paths too: main does not exit leaving the file in WAL mode
\* without having called close_database.
C27_WalClosedAtExit ==
    (main_pc = "exited" /\ exit_code \in {0, 1} /\ journal_mode = "wal")
        => closes >= 1

\* ---------------------------------------------------------------------------
\* The entries of a directory walk
\* ---------------------------------------------------------------------------

\* C28: in a directory walk only regular files are handed to
\* process_single_file: no directory, FIFO or dangling symlink.
C28_OnlyRegularFiles ==
    command = "batch" =>
        \A n \in DOMAIN handed :
            \E i \in DOMAIN entries :
                entries[i].path = handed[n] /\ entries[i].kind = "file"

\* ---------------------------------------------------------------------------
\* The slices hash_file of hasher.rs hashes
\* ---------------------------------------------------------------------------

\* C29: on every iteration of the loop, in the sequential and in the threaded
\* branch, the digests absorb exactly the bytes the read before returned,
\* never a stale or zero-filled rest of the buffer.
C29_LegacyAbsorbsBytesRead ==
    \A i \in DOMAIN legacy_fed : legacy_fed[i] = legacy_got[i]
====
